---- MODULE Spec2Model ----
(***************************************************************************)
(* Verification model of the stacc crate: the bounded double-buffer stack  *)
(* (src/src/stacc.rs) and the lock-free linked stacks with their three     *)
(* reclamation strategies (stacc_lockfree.rs, stacc_lockfree_hp.rs,        *)
(* stacc_lockfree_ebr.rs).                                                 *)
(*                                                                         *)
(* Every structure has its own specification over its own variables; the   *)
(* variables of the other structures stay at their initial values.         *)
(* Pushed payloads are tagged with the number of the call that pushes      *)
(* them: no structure ever inspects a payload, so distinct tags are the    *)
(* most general input and make loss, duplication and order observable.     *)
(***************************************************************************)
EXTENDS Integers, Sequences, FiniteSets, TLC

\* ---------------------------------------------------------------- bounds
\* Largest capacity handed to Stacc::new.
MaxCap == 2
\* Handles (threads) using the double-buffer stack concurrently.
NumThreads == 2
\* Calls made in one concurrent run of the double-buffer stack.
MaxOps == 4
\* Calls made in one single-threaded run of the double-buffer stack.
MaxSeqOps == 6

\* The single-handle run of the hazard-pointer stack keeps at most this many
\* elements linked.
HPMaxDepth == 1
HPNumHandles == 2
HPOtherPops == 1

\* Handles of the reference-counted stack, and the calls of each of them.
RCNumHandles == 2
RCMaxOps == 3
\* Pushes of a run in which the handles are dropped.
RCDropMaxPush == 2

\* Handles of the epoch-based stack, and the calls of each of them.
ENumHandles == 2
EMaxOps == 3

\* Pushes in the runs of the epoch-based stack whose handles pop forever.
ELiveMaxPush == 2
\* Largest epoch in the slot tables start_shared_section is applied to.
EMaxEpoch == 1
\* Threads sharing one AtomicArc, the Arc allocations of a run and the calls
\* of a run.
AANumThreads == 2
AAMaxAllocs == 2
AAMaxOps == 4
\* push and pop calls on the queue before its two ends are dropped.
QMaxOps == 5

\* ------------------------------------------------------ program constants
\* const MAX_THREADS: usize = 32 (stacc_lockfree_hp.rs and
\* stacc_lockfree_ebr.rs)
MAX_THREADS == 32
\* const R: usize = 42 (stacc_lockfree_hp.rs)
R == 42

\* A null pointer.
Null == 0

\* A slot of a freshly allocated slice (MaybeUninit): never a payload tag.
Uninit == 0
\* Option::None as a returned payload.
NoVal == 0

VARIABLES
    \* ---- double-buffer stack (stacc.rs)
    cap,            \* n of Stacc::new(n)
    nthr,           \* number of handles (Stacc::clone) in this run
    pushers,        \* StaccInner.pushers: [slice, len]
    poppers,        \* StaccInner.poppers: [slice, len]
    pushers_lock,   \* RwLock around pushers: [readers, writer]
    poppers_lock,   \* RwLock around poppers: [readers, writer]
    swap_lock,      \* StaccInner.swap_lock: 0 or the holder
    pc,             \* per thread: the statement it is at
    loc,            \* per thread: locals [x, oldlen, len1, caller]
    ops,            \* calls started so far
    npush,          \* push calls started so far
    accepted,       \* tags whose push returned None
    popCount,       \* tag -> number of pops that returned it
    sawFull,        \* per thread: the structure was full during the call
    alone,          \* per thread: no other call overlapped the call
    slotUse,        \* since the last swap: slot index -> number of writes /
                    \*   of reads, [written, read]
    hist,           \* single-threaded runs: the calls and their results
    \* ---- hazard-pointer stack (stacc_lockfree_hp.rs)
    hp_shared,      \* Shared: [top, hazard_pointers, counter, len,
                    \*          boxes_that_are_still_hazard]
    hp_heap,        \* the allocated Node boxes: address -> [data, next]
    hp_handles,     \* the LockFreeStacc handles: [thread_number,
                    \*   retired_pointers, cached_allocations, pc, locals]
    hp_obs,         \* history: [npush, abs (the pushed, not yet popped
                    \*   payloads, newest first)]
    \* ---- reference-counted stack (stacc_lockfree.rs)
    rc_shared,      \* StaccInner: [head, len, global_garbage]
    rc_heap,        \* the allocated Node boxes: address -> [next, counter,
                    \*   item]
    rc_handles,     \* the Stacc handles: [local_garbage, pc, locals, ops]
    rc_obs,         \* history: [npush, returned (payload -> number of pops
                    \*   that returned it)]
    \* ---- epoch-based stack (stacc_lockfree_ebr.rs)
    e_shared,       \* Shared: [top, threads, global_epoch, thread_counter]
    e_heap,         \* the allocated Node boxes: address -> [data, next]
    e_handles,      \* the Local handles: [thread_id, limbo, garbage, pc,
                    \*   locals, ops, seen, pending]
    e_obs,          \* history: [npush, abs (the payloads in the order of
                    \*   the exchanges on top, newest first), returned]
    \* ---- AtomicArc (atomic_arc.rs)
    aa_ptr,         \* AtomicArc.ptr: Null or the address of an allocation
    aa_heap,        \* the Arc allocations: address -> [strong, freed]
    aa_threads,     \* per thread: [pc, ptr (the pointer load has read),
                    \*   arcs (the Arc handles it owns, by address)]
    aa_ops,         \* calls started so far
    \* ---- SPSC ring buffer (spsc_queue.rs)
    q_inner,        \* QueueInner: [head, tail, data]; a slot of data is
                    \*   Uninit, a payload tag, or the negated tag of a
                    \*   payload that pop has moved out
    q_drop,         \* Drop for QueueInner: [pc, tail (the local)]
    q_obs           \* history: [npush, calls (push and pop calls so far),
                    \*   dropped (the slot indices drop has read, in order)]

dvars == <<cap, nthr, pushers, poppers, pushers_lock, poppers_lock, swap_lock,
           pc, loc, ops, npush, accepted, popCount, sawFull, alone,
           slotUse, hist>>

hpvars == <<hp_shared, hp_heap, hp_handles, hp_obs>>

rcvars == <<rc_shared, rc_heap, rc_handles, rc_obs>>

evars == <<e_shared, e_heap, e_handles, e_obs>>

aavars == <<aa_ptr, aa_heap, aa_threads, aa_ops>>

qvars == <<q_inner, q_drop, q_obs>>

vars == <<dvars, hpvars, rcvars, evars, aavars, qvars>>

\* ------------------------------------------------------------ helpers
Threads == 1..nthr

Min(a, b) == IF a < b THEN a ELSE b
Max(a, b) == IF a > b THEN a ELSE b

\* `if len < 0 { 0usize } else { len as usize }`
ClampNeg(n) == IF n < 0 THEN 0 ELSE n

\* AtomicPush::new / AtomicPop::new: n uninitialised slots, len 0.
NewBuffer(n) == [slice |-> [i \in 1..n |-> Uninit], len |-> 0]

\* slice.len()
MaxLen(b) == Cardinality(DOMAIN b.slice)

\* A lock nobody holds.
Unlocked == [readers |-> {}, writer |-> 0]

\* The number of elements a buffer holds: its counter without the transient
\* excursions below 0 and above the capacity.
Held(b) == Min(ClampNeg(b.len), MaxLen(b))

\* The elements a buffer stores, bottom first.
Stored(b) == [i \in 1..Held(b) |-> b.slice[i]]

\* Both sub-buffers are at capacity.
Full(pu, po) == Held(pu) = MaxLen(pu) /\ Held(po) = MaxLen(po)

\* Mutant: a read guard is not released.
DropRead_Kept(lock, t) == lock

\* drop(lock) of a read guard, explicit or at the end of its scope.
DropRead(lock, t) == [lock EXCEPT !.readers = @ \ {t}]

\* The locals of a thread that runs no call.
NoLocals == [x |-> NoVal, oldlen |-> 0, len1 |-> 0, caller |-> "none"]

Budget == IF nthr = 1 THEN MaxSeqOps ELSE MaxOps

\* Bag of returned payloads with one more `item`.
Counted(bag, item) ==
    [v \in DOMAIN bag \cup {item} |->
        IF v = item THEN (IF v \in DOMAIN bag THEN bag[v] ELSE 0) + 1
        ELSE bag[v]]

\* The bag `bag` with every element of the sequence `items` counted once
\* more.
RECURSIVE CountedAll(_, _)
CountedAll(bag, items) ==
    IF items = << >> THEN bag
    ELSE CountedAll(Counted(bag, Head(items)), Tail(items))

\* History, per thread and for its running call: whether the structure has
\* been full at some instant of the call, and whether no other thread has
\* been inside a call at any instant of it; and, since the last swap, how
\* often ptr::write has written slice[oldlen] and ptr::read has read
\* slice[len - 1] (the indices of the source, from 0).
Observe ==
    /\ sawFull' = [u \in Threads |->
                     IF pc'[u] = "idle" THEN FALSE
                     ELSE IF pc[u] = "idle"
                          THEN Full(pushers, poppers) \/ Full(pushers', poppers')
                          ELSE sawFull[u] \/ Full(pushers', poppers')]
    /\ alone' = [u \in Threads |->
                   IF pc'[u] = "idle" THEN TRUE
                   ELSE IF pc[u] = "idle"
                        THEN \A w \in Threads \ {u} : pc[w] = "idle"
                        ELSE alone[u] /\ \A w \in Threads \ {u} : pc'[w] = pc[w]]
    /\ slotUse' =
         IF \E u \in Threads : pc[u] = "swap_do" /\ pc'[u] # "swap_do"
         THEN [written |-> << >>, read |-> << >>]
         ELSE IF \E u \in Threads : pc[u] = "push_write" /\ pc'[u] = "idle"
         THEN LET u == CHOOSE w \in Threads :
                           pc[w] = "push_write" /\ pc'[w] = "idle"
              IN [slotUse EXCEPT !.written = Counted(@, loc[u].oldlen)]
         ELSE IF \E u \in Threads : pc[u] = "pop_read" /\ pc'[u] = "idle"
         THEN LET u == CHOOSE w \in Threads :
                           pc[w] = "pop_read" /\ pc'[w] = "idle"
              IN [slotUse EXCEPT !.read = Counted(@, loc[u].oldlen - 1)]
         ELSE slotUse

\* What every step of the double-buffer stack leaves alone, with the history.
DStep == Observe /\ UNCHANGED <<cap, nthr>> /\ UNCHANGED <<hpvars, rcvars, evars, aavars, qvars>>

\* History: the calls of a single-threaded run, in order.
Record(ev) == hist' = IF nthr = 1 THEN Append(hist, ev) ELSE hist

\* ---------------------------------------------------------------- Init
\* Stacc::new(n), cloned until k handles exist.
InitBuffers(n, k) ==
    /\ cap = n
    /\ nthr = k
    /\ pushers = NewBuffer(n)
    /\ poppers = NewBuffer(n)
    /\ pushers_lock = Unlocked
    /\ poppers_lock = Unlocked
    /\ swap_lock = 0
    /\ pc = [t \in 1..k |-> "idle"]
    /\ loc = [t \in 1..k |-> NoLocals]
    /\ ops = 0
    /\ npush = 0
    /\ accepted = {}
    /\ popCount = << >>
    /\ sawFull = [t \in 1..k |-> FALSE]
    /\ alone = [t \in 1..k |-> TRUE]
    /\ slotUse = [written |-> << >>, read |-> << >>]
    /\ hist = << >>

\* ------------------------------------------------- StaccInner::push
\* AtomicPush::push, the branch on oldlen: clamp (oldlen == maxlen), report
\* full (oldlen >= maxlen) or write the slot.
AtomicPushNext(old, maxlen) ==
    IF old = maxlen THEN "push_fmin"
    ELSE IF old >= maxlen THEN "push_chk"
    ELSE "push_write"

\* let lock = self.pushers.read(); let oldlen = self.len.fetch_add(1).
\* The guard is dropped at once when the buffer was over capacity already
\* (Some(x) => x; drop(lock)).
FetchAdd(t) ==
    LET next == AtomicPushNext(pushers.len, MaxLen(pushers)) IN
    /\ pushers_lock.writer = 0
    /\ pushers' = [pushers EXCEPT !.len = @ + 1]
    /\ pushers_lock' = IF next = "push_chk" THEN pushers_lock
                       ELSE [pushers_lock EXCEPT !.readers = @ \cup {t}]
    /\ pc' = [pc EXCEPT ![t] = next]

\* Stacc::push(x), x tagged with the number of the push, up to the fetch_add.
CallPush(t) ==
    /\ pc[t] = "idle"
    /\ ops < Budget
    /\ ops' = ops + 1
    /\ npush' = npush + 1
    /\ loc' = [loc EXCEPT ![t].x = npush + 1, ![t].oldlen = pushers.len]
    /\ FetchAdd(t)
    /\ UNCHANGED <<poppers, poppers_lock, swap_lock, accepted, popCount, hist>>
    /\ DStep

\* `return self.push(x)` after swap_stacks, up to the fetch_add.
PushFetchAdd(t) ==
    /\ pc[t] = "push_fadd"
    /\ loc' = [loc EXCEPT ![t].oldlen = pushers.len]
    /\ FetchAdd(t)
    /\ UNCHANGED <<poppers, poppers_lock, swap_lock, ops, npush, accepted,
                   popCount, hist>>
    /\ DStep

\* Mutant: the clamp after an over-capacity fetch_add is left out.
FetchMin_NoClamp(len, maxlen) == len

\* self.len.fetch_min(maxlen)
FetchMin(len, maxlen) == Min(len, maxlen)

\* self.len.fetch_min(maxlen); return Some(x) to StaccInner::push; drop(lock)
PushFetchMin(t) ==
    /\ pc[t] = "push_fmin"
    /\ pushers' = [pushers EXCEPT !.len = FetchMin(@, MaxLen(pushers))]
    /\ pushers_lock' = DropRead(pushers_lock, t)
    /\ pc' = [pc EXCEPT ![t] = "push_chk"]
    /\ UNCHANGED <<poppers, poppers_lock, swap_lock, loc, ops, npush,
                   accepted, popCount, hist>>
    /\ DStep

\* Mutant: the slot is indexed with the counter after the increment.
PushSlot_AfterIncrement(old) == old + 2

\* let n = oldlen as usize, as an index of the model's 1-based slice.
PushSlot(old) == old + 1

\* ptr::write(self.slice[oldlen], x); None => return None (the read guard is
\* dropped).
PushWrite(t) ==
    /\ pc[t] = "push_write"
    /\ pushers' = [pushers EXCEPT !.slice[PushSlot(loc[t].oldlen)] = loc[t].x]
    /\ pushers_lock' = DropRead(pushers_lock, t)
    /\ accepted' = accepted \cup {loc[t].x}
    /\ Record([op |-> "push", arg |-> loc[t].x, val |-> NoVal])
    /\ loc' = [loc EXCEPT ![t] = NoLocals]
    /\ pc' = [pc EXCEPT ![t] = "idle"]
    /\ UNCHANGED <<poppers, poppers_lock, swap_lock, ops, npush, popCount>>
    /\ DStep

\* Mutant: the buffers are swapped only when the pop-buffer is drained.
PushMaySwap_Drained(poppers_len, poppers_maxlen) == poppers_len = 0

\* `if poppers_len != poppers_maxlen`: swap and retry, else report full.
PushMaySwap(poppers_len, poppers_maxlen) == poppers_len # poppers_maxlen

\* let poppers = self.poppers.read(); load len; clamp; drop(poppers);
\* then either swap_stacks() or return Some(x).
PushCheckPoppers(t) ==
    /\ pc[t] = "push_chk"
    /\ poppers_lock.writer = 0
    /\ IF PushMaySwap(ClampNeg(poppers.len), MaxLen(poppers))
       THEN /\ pc' = [pc EXCEPT ![t] = "swap_try"]
            /\ loc' = [loc EXCEPT ![t].caller = "push"]
       ELSE /\ pc' = [pc EXCEPT ![t] = "push_ret_some"]
            /\ UNCHANGED loc
    /\ UNCHANGED <<pushers, poppers, pushers_lock, poppers_lock, swap_lock,
                   ops, npush, accepted, popCount, hist>>
    /\ DStep

\* return Some(x)
PushReturnSome(t) ==
    /\ pc[t] = "push_ret_some"
    /\ Record([op |-> "push", arg |-> loc[t].x, val |-> loc[t].x])
    /\ loc' = [loc EXCEPT ![t] = NoLocals]
    /\ pc' = [pc EXCEPT ![t] = "idle"]
    /\ UNCHANGED <<pushers, poppers, pushers_lock, poppers_lock, swap_lock,
                   ops, npush, accepted, popCount>>
    /\ DStep

\* -------------------------------------------- StaccInner::swap_stacks
\* The statement a caller of swap_stacks goes on with: `return self.push(x)`
\* or `return self.pop()`.
Retry(t) == IF loc[t].caller = "push" THEN "push_fadd" ELSE "pop_fsub"

\* let swap_lock = self.swap_lock.try_lock();
SwapTryLock(t) ==
    /\ pc[t] = "swap_try"
    /\ IF swap_lock = 0
       THEN /\ swap_lock' = t
            /\ pc' = [pc EXCEPT ![t] = "swap_wpop"]
       ELSE /\ pc' = [pc EXCEPT ![t] = "swap_wait"]
            /\ UNCHANGED swap_lock
    /\ UNCHANGED <<pushers, poppers, pushers_lock, poppers_lock, loc, ops,
                   npush, accepted, popCount, hist>>
    /\ DStep

\* drop(self.swap_lock.lock()); return;
SwapWait(t) ==
    /\ pc[t] = "swap_wait"
    /\ swap_lock = 0
    /\ pc' = [pc EXCEPT ![t] = Retry(t)]
    /\ UNCHANGED <<pushers, poppers, pushers_lock, poppers_lock, swap_lock,
                   loc, ops, npush, accepted, popCount, hist>>
    /\ DStep

\* Mutant: a write lock is granted while read guards are out.
WriteGranted_IgnoreReaders(lock) == lock.writer = 0

\* RwLock::write() returns once no read guard and no write guard is out.
WriteGranted(lock) == lock = Unlocked

\* let mut poppers = self.poppers.write();
SwapWritePoppers(t) ==
    /\ pc[t] = "swap_wpop"
    /\ WriteGranted(poppers_lock)
    /\ poppers_lock' = [poppers_lock EXCEPT !.writer = t]
    /\ pc' = [pc EXCEPT ![t] = "swap_wpush"]
    /\ UNCHANGED <<pushers, poppers, pushers_lock, swap_lock, loc, ops, npush,
                   accepted, popCount, hist>>
    /\ DStep

\* let mut pushers = self.pushers.write();
SwapWritePushers(t) ==
    /\ pc[t] = "swap_wpush"
    /\ WriteGranted(pushers_lock)
    /\ pushers_lock' = [pushers_lock EXCEPT !.writer = t]
    /\ pc' = [pc EXCEPT ![t] = "swap_do"]
    /\ UNCHANGED <<pushers, poppers, poppers_lock, swap_lock, loc, ops, npush,
                   accepted, popCount, hist>>
    /\ DStep

\* mem::swap of slice and of len; drop(swap_lock); the two write guards go
\* out of scope.
SwapDo(t) ==
    /\ pc[t] = "swap_do"
    /\ pushers' = [slice |-> poppers.slice, len |-> poppers.len]
    /\ poppers' = [slice |-> pushers.slice, len |-> pushers.len]
    /\ swap_lock' = 0
    /\ pushers_lock' = Unlocked
    /\ poppers_lock' = Unlocked
    /\ pc' = [pc EXCEPT ![t] = Retry(t)]
    /\ UNCHANGED <<loc, ops, npush, accepted, popCount, hist>>
    /\ DStep

\* -------------------------------------------------- StaccInner::pop
\* AtomicPop::pop, the branch on len: clamp (len == 0), report empty
\* (len <= 0) or read the slot.
AtomicPopNext(old) ==
    IF old = 0 THEN "pop_fmax"
    ELSE IF old <= 0 THEN "pop_chk"
    ELSE "pop_read"

\* let lock = self.poppers.read(); let len = self.len.fetch_sub(1).
\* The guard is dropped at once when the counter was negative already
\* (AtomicPop::pop returned None; drop(lock)).
FetchSub(t) ==
    LET next == AtomicPopNext(poppers.len) IN
    /\ poppers_lock.writer = 0
    /\ loc' = [loc EXCEPT ![t].oldlen = poppers.len]
    /\ poppers' = [poppers EXCEPT !.len = @ - 1]
    /\ poppers_lock' = IF next = "pop_chk" THEN poppers_lock
                       ELSE [poppers_lock EXCEPT !.readers = @ \cup {t}]
    /\ pc' = [pc EXCEPT ![t] = next]

\* Stacc::pop(), up to the fetch_sub.
CallPop(t) ==
    /\ pc[t] = "idle"
    /\ ops < Budget
    /\ ops' = ops + 1
    /\ FetchSub(t)
    /\ UNCHANGED <<pushers, pushers_lock, swap_lock, npush, accepted,
                   popCount, hist>>
    /\ DStep

\* `return self.pop()` after swap_stacks, up to the fetch_sub.
PopFetchSub(t) ==
    /\ pc[t] = "pop_fsub"
    /\ FetchSub(t)
    /\ UNCHANGED <<pushers, pushers_lock, swap_lock, ops, npush, accepted,
                   popCount, hist>>
    /\ DStep

\* Mutant: the clamp after a fetch_sub on an empty buffer is left out.
FetchMax_NoClamp(len) == len

\* self.len.fetch_max(0)
FetchMax(len) == Max(len, 0)

\* self.len.fetch_max(0); return None to StaccInner::pop; drop(lock)
PopFetchMax(t) ==
    /\ pc[t] = "pop_fmax"
    /\ poppers' = [poppers EXCEPT !.len = FetchMax(@)]
    /\ poppers_lock' = DropRead(poppers_lock, t)
    /\ pc' = [pc EXCEPT ![t] = "pop_chk"]
    /\ UNCHANGED <<pushers, pushers_lock, swap_lock, loc, ops, npush,
                   accepted, popCount, hist>>
    /\ DStep

\* let n = len as usize - 1, as an index of the model's 1-based slice.
PopSlot(len) == len

\* ptr::read(self.slice[len - 1]); return Some(item) (the read guard is
\* dropped).
PopRead(t) ==
    LET item == poppers.slice[PopSlot(loc[t].oldlen)] IN
    /\ pc[t] = "pop_read"
    /\ poppers_lock' = DropRead(poppers_lock, t)
    /\ popCount' = Counted(popCount, item)
    /\ Record([op |-> "pop", arg |-> NoVal, val |-> item])
    /\ loc' = [loc EXCEPT ![t] = NoLocals]
    /\ pc' = [pc EXCEPT ![t] = "idle"]
    /\ UNCHANGED <<pushers, poppers, pushers_lock, swap_lock, ops, npush,
                   accepted>>
    /\ DStep

\* `if pushers_len != 0`: swap and retry, else report empty.
PopMaySwap(pushers_len) == pushers_len # 0

\* let pushers = self.pushers.read(); load len; clamp; drop(pushers);
\* then either swap_stacks() or return None.
PopCheckPushers(t) ==
    /\ pc[t] = "pop_chk"
    /\ pushers_lock.writer = 0
    /\ IF PopMaySwap(ClampNeg(pushers.len))
       THEN /\ pc' = [pc EXCEPT ![t] = "swap_try"]
            /\ loc' = [loc EXCEPT ![t].caller = "pop"]
       ELSE /\ pc' = [pc EXCEPT ![t] = "pop_ret_none"]
            /\ UNCHANGED loc
    /\ UNCHANGED <<pushers, poppers, pushers_lock, poppers_lock, swap_lock,
                   ops, npush, accepted, popCount, hist>>
    /\ DStep

\* return None
PopReturnNone(t) ==
    /\ pc[t] = "pop_ret_none"
    /\ Record([op |-> "pop", arg |-> NoVal, val |-> NoVal])
    /\ loc' = [loc EXCEPT ![t] = NoLocals]
    /\ pc' = [pc EXCEPT ![t] = "idle"]
    /\ UNCHANGED <<pushers, poppers, pushers_lock, poppers_lock, swap_lock,
                   ops, npush, accepted, popCount>>
    /\ DStep

\* -------------------------------------------------- StaccInner::len
\* Stacc::len(): let len1 = self.pushers.read().len.load();
CallLen(t) ==
    /\ pc[t] = "idle"
    /\ ops < Budget
    /\ ops' = ops + 1
    /\ pushers_lock.writer = 0
    /\ loc' = [loc EXCEPT ![t].len1 = pushers.len]
    /\ pc' = [pc EXCEPT ![t] = "len_poppers"]
    /\ UNCHANGED <<pushers, poppers, pushers_lock, poppers_lock, swap_lock,
                   npush, accepted, popCount, hist>>
    /\ DStep

\* len1 + len2, both clamped at 0.
LenSum(l1, l2) == ClampNeg(l1) + ClampNeg(l2)

\* let len2 = self.poppers.read().len.load(); len1 + len2
LenPoppers(t) ==
    /\ pc[t] = "len_poppers"
    /\ poppers_lock.writer = 0
    /\ Record([op |-> "len", arg |-> NoVal,
               val |-> LenSum(loc[t].len1, poppers.len)])
    /\ loc' = [loc EXCEPT ![t] = NoLocals]
    /\ pc' = [pc EXCEPT ![t] = "idle"]
    /\ UNCHANGED <<pushers, poppers, pushers_lock, poppers_lock, swap_lock,
                   ops, npush, accepted, popCount>>
    /\ DStep

\* ======================================================================
\* Hazard-pointer stack (stacc_lockfree_hp.rs)
\* ======================================================================
\* push publishes a node with an AcqRel exchange and pop loads top with
\* Acquire or SeqCst, so a node's fields are visible to whoever reads its
\* address from top: each atomic operation is one step of an interleaving.
Last(seq) == seq[Len(seq)]
Front(seq) == SubSeq(seq, 1, Len(seq) - 1)

\* hazard_pointers: Default::default(), MAX_THREADS null slots.
NoHazards == [i \in 0..(MAX_THREADS - 1) |-> Null]

\* Shared::new()
HPSharedNew ==
    [top |-> Null, hazard_pointers |-> NoHazards, counter |-> 0, len |-> 0,
     boxes_that_are_still_hazard |-> << >>]

\* The locals of a handle that runs no call.
HPNoLocals == [x |-> NoVal, top |-> Null, node |-> Null, next |-> Null,
               data |-> NoVal, want |-> NoVal, scan_i |-> 0, scan_v |-> {}]

\* A handle as LockFreeStacc::new and clone build it.
HPHandle(n) ==
    [thread_number |-> n, retired_pointers |-> << >>,
     cached_allocations |-> << >>, pc |-> "idle", loc |-> HPNoLocals,
     ops |-> 0]

\* LockFreeStacc::new(): the first handle takes counter.fetch_add(1).
HPInit ==
    /\ hp_shared = [HPSharedNew EXCEPT !.counter = 1]
    /\ hp_heap = << >>
    /\ hp_handles = <<HPHandle(0)>>
    /\ hp_obs = [npush |-> 0, abs |-> << >>]

\* LockFreeStacc::new() followed by k - 1 clones: the handles take the
\* counter values 0 .. k - 1.
HPInitN(k) ==
    /\ hp_shared = [HPSharedNew EXCEPT !.counter = k]
    /\ hp_heap = << >>
    /\ hp_handles = [h \in 1..k |-> HPHandle(h - 1)]
    /\ hp_obs = [npush |-> 0, abs |-> << >>]

HPHandles == DOMAIN hp_handles

\* The pushes of a run: enough to retire R nodes and push again.
HPMaxPush == R + 2

\* usize fetch_add / fetch_sub of len; a value below 0 stands for the wrapped
\* 2^64 + n.
UsizeAdd(n, d) == n + d

\* get_node, (Some(b) => b): the cached box is handed back as it is; the
\* `node` built by push (next, data) is dropped.
HPReusedBox(cached, node) == cached

\* get_node: the address and the content of the box push goes on with, and
\* what is left of the cache.
HPGetNode(h, node) ==
    LET cache == hp_handles[h].cached_allocations IN
    IF cache = << >>
    THEN [addr |-> Len(hp_heap) + 1, box |-> node, cache |-> cache]
    ELSE [addr |-> Last(cache),
          box |-> HPReusedBox(hp_heap[Last(cache)], node),
          cache |-> Front(cache)]

\* The heap with `box` at `addr` (a fresh address extends it).
HPStore(addr, box) ==
    [a \in DOMAIN hp_heap \cup {addr} |-> IF a = addr THEN box ELSE hp_heap[a]]

\* push: let top = top.load(); let node = Node { next: top, data };
\* let node = self.get_node(node);
HPEnterPush(h) ==
    LET x == hp_obs.npush + 1
        got == HPGetNode(h, [data |-> x, next |-> hp_shared.top])
    IN
    /\ hp_handles[h].pc = "idle"
    /\ hp_obs' = [hp_obs EXCEPT !.npush = x]
    /\ hp_heap' = HPStore(got.addr, got.box)
    /\ hp_handles' = [hp_handles EXCEPT
                        ![h].pc = "push_cas",
                        ![h].cached_allocations = got.cache,
                        ![h].loc.x = x,
                        ![h].loc.top = hp_shared.top,
                        ![h].loc.node = got.addr]
    /\ UNCHANGED <<hp_shared, dvars, rcvars, evars, aavars, qvars>>

\* push, called while the run has pushes left and the stack is below
\* HPMaxDepth.
HPCallPush(h) ==
    /\ hp_obs.npush < HPMaxPush
    /\ Len(hp_obs.abs) < HPMaxDepth
    /\ HPEnterPush(h)

\* top.compare_exchange_weak(top, node): it may fail although top is the
\* expected value. Err(newtop) => (*node).next = newtop; top = newtop.
HPPushCas(h) ==
    LET l == hp_handles[h].loc IN
    /\ hp_handles[h].pc = "push_cas"
    /\ \E ok \in {hp_shared.top = l.top, FALSE} :
          IF ok
          THEN /\ hp_shared' = [hp_shared EXCEPT !.top = l.node]
               /\ hp_obs' = [hp_obs EXCEPT !.abs = <<l.x>> \o @]
               /\ hp_handles' = [hp_handles EXCEPT ![h].pc = "push_len"]
               /\ UNCHANGED hp_heap
          ELSE /\ hp_heap' = [hp_heap EXCEPT ![l.node].next = hp_shared.top]
               /\ hp_handles' = [hp_handles EXCEPT ![h].loc.top = hp_shared.top]
               /\ UNCHANGED <<hp_shared, hp_obs>>
    /\ UNCHANGED <<dvars, rcvars, evars, aavars, qvars>>

\* self.shared.len.fetch_add(1); push returns.
HPPushLen(h) ==
    /\ hp_handles[h].pc = "push_len"
    /\ hp_shared' = [hp_shared EXCEPT !.len = UsizeAdd(@, 1)]
    /\ hp_handles' = [hp_handles EXCEPT ![h].pc = "idle", ![h].loc = HPNoLocals]
    /\ UNCHANGED <<hp_heap, hp_obs, dvars, rcvars, evars, aavars, qvars>>

\* pop: let mut top = self.shared.top.load(); calls is the number of pops
\* the handle has started.
HPEnterPop(h, calls) ==
    /\ hp_handles[h].pc = "idle"
    /\ hp_handles' = [hp_handles EXCEPT ![h].pc = "pop_hazard",
                                        ![h].loc.top = hp_shared.top,
                                        ![h].ops = calls]
    /\ UNCHANGED <<hp_shared, hp_heap, hp_obs, dvars, rcvars, evars, aavars, qvars>>

\* pop, called any number of times.
HPCallPop(h) == HPEnterPop(h, hp_handles[h].ops)

\* pop, called at most HPOtherPops times by the handle.
HPCallPopCounted(h) ==
    /\ hp_handles[h].ops < HPOtherPops
    /\ HPEnterPop(h, hp_handles[h].ops + 1)

\* hazard_pointers[thread_number].store(top): the index is bounds-checked,
\* a thread_number >= MAX_THREADS panics. if top.is_null() { return None }
HPPopHazard(h) ==
    LET l == hp_handles[h].loc
        n == hp_handles[h].thread_number
    IN
    /\ hp_handles[h].pc = "pop_hazard"
    /\ IF n >= MAX_THREADS
       THEN /\ hp_handles' = [hp_handles EXCEPT ![h].pc = "panicked"]
            /\ UNCHANGED hp_shared
       ELSE /\ hp_shared' = [hp_shared EXCEPT !.hazard_pointers[n] = l.top]
            /\ hp_handles' = [hp_handles EXCEPT
                 ![h].pc = IF l.top = Null THEN "pop_none" ELSE "pop_recheck"]
    /\ UNCHANGED <<hp_heap, hp_obs, dvars, rcvars, evars, aavars, qvars>>

\* return None
HPPopNone(h) ==
    /\ hp_handles[h].pc = "pop_none"
    /\ hp_handles' = [hp_handles EXCEPT ![h].pc = "idle", ![h].loc = HPNoLocals]
    /\ UNCHANGED <<hp_shared, hp_heap, hp_obs, dvars, rcvars, evars, aavars, qvars>>

\* let newertop = top.load(); if newertop != top { top = newertop; continue }
HPPopRecheck(h) ==
    LET l == hp_handles[h].loc IN
    /\ hp_handles[h].pc = "pop_recheck"
    /\ hp_handles' = [hp_handles EXCEPT
         ![h].pc = IF hp_shared.top # l.top THEN "pop_hazard" ELSE "pop_next",
         ![h].loc.top = hp_shared.top]
    /\ UNCHANGED <<hp_shared, hp_heap, hp_obs, dvars, rcvars, evars, aavars, qvars>>

\* let next = (*top).next;
HPPopNext(h) ==
    LET l == hp_handles[h].loc IN
    /\ hp_handles[h].pc = "pop_next"
    /\ hp_handles' = [hp_handles EXCEPT ![h].pc = "pop_cas",
                                        ![h].loc.next = hp_heap[l.top].next]
    /\ UNCHANGED <<hp_shared, hp_heap, hp_obs, dvars, rcvars, evars, aavars, qvars>>

\* top.compare_exchange_weak(top, next): Ok(oldtop) => break oldtop,
\* Err(newertop) => top = newertop (and the loop starts over).
HPPopCas(h) ==
    LET l == hp_handles[h].loc IN
    /\ hp_handles[h].pc = "pop_cas"
    /\ \E ok \in {hp_shared.top = l.top, FALSE} :
          IF ok
          THEN /\ hp_shared' = [hp_shared EXCEPT !.top = l.next]
               /\ hp_obs' = [hp_obs EXCEPT
                    !.abs = IF @ = << >> THEN @ ELSE Tail(@)]
               /\ hp_handles' = [hp_handles EXCEPT
                    ![h].pc = "pop_clear",
                    ![h].loc.want = IF hp_obs.abs = << >> THEN NoVal
                                    ELSE Head(hp_obs.abs)]
          ELSE /\ hp_handles' = [hp_handles EXCEPT ![h].pc = "pop_hazard",
                                                   ![h].loc.top = hp_shared.top]
               /\ UNCHANGED <<hp_shared, hp_obs>>
    /\ UNCHANGED <<hp_heap, dvars, rcvars, evars, aavars, qvars>>

\* hazard_pointers[thread_number].store(null)
HPPopClear(h) ==
    /\ hp_handles[h].pc = "pop_clear"
    /\ hp_shared' = [hp_shared EXCEPT
                       !.hazard_pointers[hp_handles[h].thread_number] = Null]
    /\ hp_handles' = [hp_handles EXCEPT ![h].pc = "pop_len"]
    /\ UNCHANGED <<hp_heap, hp_obs, dvars, rcvars, evars, aavars, qvars>>

\* self.shared.len.fetch_sub(1)
HPPopLen(h) ==
    /\ hp_handles[h].pc = "pop_len"
    /\ hp_shared' = [hp_shared EXCEPT !.len = UsizeAdd(@, -1)]
    /\ hp_handles' = [hp_handles EXCEPT ![h].pc = "pop_data"]
    /\ UNCHANGED <<hp_heap, hp_obs, dvars, rcvars, evars, aavars, qvars>>

\* let data = ptr::read((*oldtop).data)
HPPopData(h) ==
    LET l == hp_handles[h].loc IN
    /\ hp_handles[h].pc = "pop_data"
    /\ hp_handles' = [hp_handles EXCEPT ![h].pc = "pop_retire",
                                        ![h].loc.data = hp_heap[l.top].data]
    /\ UNCHANGED <<hp_shared, hp_heap, hp_obs, dvars, rcvars, evars, aavars, qvars>>

\* retire_node: if self.retired_pointers.len() >= R { self.scan(); }
HPMustScan(len) == len >= R

\* self.retire_node(oldtop): retired_pointers.push(node); scan starts once
\* the list holds R.
HPPopRetire(h) ==
    LET l == hp_handles[h].loc
        retired == Append(hp_handles[h].retired_pointers, l.top)
    IN
    /\ hp_handles[h].pc = "pop_retire"
    /\ hp_handles' = [hp_handles EXCEPT
                        ![h].pc = IF HPMustScan(Len(retired)) THEN "scan"
                                  ELSE "pop_ret",
                        ![h].retired_pointers = retired,
                        ![h].loc.scan_i = 0,
                        ![h].loc.scan_v = {}]
    /\ UNCHANGED <<hp_shared, hp_heap, hp_obs, dvars, rcvars, evars, aavars, qvars>>

\* scan: the hazard slots are loaded one after the other (Relaxed); the
\* non-null pointers are collected in v.
HPScanLoad(h) ==
    LET l == hp_handles[h].loc
        q == hp_shared.hazard_pointers[l.scan_i]
    IN
    /\ hp_handles[h].pc = "scan"
    /\ hp_handles' = [hp_handles EXCEPT
                        ![h].pc = IF l.scan_i + 1 = MAX_THREADS
                                  THEN "scan_filter" ELSE "scan",
                        ![h].loc.scan_i = l.scan_i + 1,
                        ![h].loc.scan_v = IF q = Null THEN l.scan_v
                                          ELSE l.scan_v \cup {q}]
    /\ UNCHANGED <<hp_shared, hp_heap, hp_obs, dvars, rcvars, evars, aavars, qvars>>

\* scan: rlist.drain_filter(|x| v.binary_search(x).is_err()): the retired
\* pointers that are not in v leave the list, in its order ...
HPFreed(retired, v) == SelectSeq(retired, LAMBDA q : q \notin v)

\* ... and those in v stay retired.
HPKept(retired, v) == SelectSeq(retired, LAMBDA q : q \in v)

\* scan: every drained pointer is boxed and pushed to cached_allocations
\* (prepare_for_reuse); the rest is the new retired_pointers.
HPScanFilter(h) ==
    LET l == hp_handles[h].loc
        retired == hp_handles[h].retired_pointers
    IN
    /\ hp_handles[h].pc = "scan_filter"
    /\ hp_handles' = [hp_handles EXCEPT
                        ![h].pc = "pop_ret",
                        ![h].retired_pointers = HPKept(retired, l.scan_v),
                        ![h].cached_allocations =
                             @ \o HPFreed(retired, l.scan_v),
                        ![h].loc.scan_i = 0,
                        ![h].loc.scan_v = {}]
    /\ UNCHANGED <<hp_shared, hp_heap, hp_obs, dvars, rcvars, evars, aavars, qvars>>

\* return Some(data)
HPPopReturn(h) ==
    /\ hp_handles[h].pc = "pop_ret"
    /\ hp_handles' = [hp_handles EXCEPT ![h].pc = "idle", ![h].loc = HPNoLocals]
    /\ UNCHANGED <<hp_shared, hp_heap, hp_obs, dvars, rcvars, evars, aavars, qvars>>

\* ======================================================================
\* Reference-counted stack (stacc_lockfree.rs)
\* ======================================================================
\* Each atomic operation is one step of an interleaving and every read
\* finds the latest write; the program's orderings (Acquire, Relaxed) allow
\* these behaviours and more.
\* StaccInner::default()
\* global_garbage_lock is the Mutex around global_garbage: 0, or the handle
\* that holds it.
RCSharedNew == [head |-> Null, len |-> 0, global_garbage |-> << >>,
                global_garbage_lock |-> 0]

\* The locals of a handle that runs no call.
RCNoLocals == [x |-> NoVal, head |-> Null, newhead |-> Null, node |-> Null]

\* A handle as Stacc::new and clone build it: the local garbage is empty.
RCHandle == [local_garbage |-> << >>, pc |-> "idle", loc |-> RCNoLocals,
             ops |-> 0]

\* Stacc::new() and k - 1 clones: clone shares the StaccInner and touches
\* nothing else.
RCInit(k) ==
    /\ rc_shared = RCSharedNew
    /\ rc_heap = << >>
    /\ rc_handles = [h \in 1..k |-> RCHandle]
    /\ rc_obs = [npush |-> 0, returned |-> << >>, freed |-> << >>]

RCHandles == DOMAIN rc_handles

\* make_node: a box of the local garbage gets the new item and keeps its
\* next and its counter; without one, Node::new(x) is boxed.
RCMakeNode(h, x) ==
    LET g == rc_handles[h].local_garbage IN
    IF g = << >>
    THEN [addr |-> Len(rc_heap) + 1,
          box |-> [next |-> Null, counter |-> 0, item |-> x],
          garbage |-> g]
    ELSE [addr |-> Last(g),
          box |-> [rc_heap[Last(g)] EXCEPT !.item = x],
          garbage |-> Front(g)]

\* The heap with `box` at `addr` (a fresh address extends it).
RCStore(addr, box) ==
    [a \in DOMAIN rc_heap \cup {addr} |-> IF a = addr THEN box ELSE rc_heap[a]]

\* Stacc::push: let node = self.make_node(item); StaccInner::push:
\* let head = self.head.load(); node.next = head;
RCCallPush(h) ==
    LET x == rc_obs.npush + 1
        got == RCMakeNode(h, x)
    IN
    /\ rc_handles[h].pc = "idle"
    /\ rc_handles[h].ops < RCMaxOps
    /\ rc_obs' = [rc_obs EXCEPT !.npush = x]
    /\ rc_heap' = RCStore(got.addr, [got.box EXCEPT !.next = rc_shared.head])
    /\ rc_handles' = [rc_handles EXCEPT
                        ![h].pc = "push_cas",
                        ![h].ops = @ + 1,
                        ![h].local_garbage = got.garbage,
                        ![h].loc.x = x,
                        ![h].loc.head = rc_shared.head,
                        ![h].loc.node = got.addr]
    /\ UNCHANGED <<rc_shared, dvars, hpvars, evars, aavars, qvars>>

\* The head the next compare_exchange of push expects after a failure that
\* saw `newhead`: the loop leaves `head` as it was loaded before the loop.
RCPushExpected(head, newhead) == head

\* while let Err(newhead) = self.head.compare_exchange(head, node)
RCPushCas(h) ==
    LET l == rc_handles[h].loc IN
    /\ rc_handles[h].pc = "push_cas"
    /\ IF rc_shared.head = l.head
       THEN /\ rc_shared' = [rc_shared EXCEPT !.head = l.node]
            /\ rc_handles' = [rc_handles EXCEPT ![h].pc = "push_len"]
       ELSE /\ rc_handles' = [rc_handles EXCEPT
                 ![h].pc = "push_retry",
                 ![h].loc.newhead = rc_shared.head]
            /\ UNCHANGED rc_shared
    /\ UNCHANGED <<rc_heap, rc_obs, dvars, hpvars, evars, aavars, qvars>>

\* The body of the loop: (*node).next = NonNull::new(newhead); then the
\* exchange is tried again.
RCPushRetry(h) ==
    LET l == rc_handles[h].loc IN
    /\ rc_handles[h].pc = "push_retry"
    /\ rc_heap' = [rc_heap EXCEPT ![l.node].next = l.newhead]
    /\ rc_handles' = [rc_handles EXCEPT
          ![h].pc = "push_cas",
          ![h].loc.head = RCPushExpected(l.head, l.newhead),
          ![h].loc.newhead = Null]
    /\ UNCHANGED <<rc_shared, rc_obs, dvars, hpvars, evars, aavars, qvars>>

\* self.len.fetch_add(1); push returns.
RCPushLen(h) ==
    /\ rc_handles[h].pc = "push_len"
    /\ rc_shared' = [rc_shared EXCEPT !.len = UsizeAdd(@, 1)]
    /\ rc_handles' = [rc_handles EXCEPT ![h].pc = "idle", ![h].loc = RCNoLocals]
    /\ UNCHANGED <<rc_heap, rc_obs, dvars, hpvars, evars, aavars, qvars>>

\* StaccInner::pop, the head of the loop:
\* let head = NonNull::new(self.head.load())?;  (a null head returns None)
RCLoadHead(h) ==
    [rc_handles EXCEPT
       ![h].pc = IF rc_shared.head = Null THEN "idle" ELSE "pop_inc",
       ![h].loc = IF rc_shared.head = Null THEN RCNoLocals
                  ELSE [@ EXCEPT !.head = rc_shared.head]]

\* Stacc::pop enters StaccInner::pop.
RCCallPop(h) ==
    /\ rc_handles[h].pc = "idle"
    /\ rc_handles[h].ops < RCMaxOps
    /\ rc_handles' = [RCLoadHead(h) EXCEPT ![h].ops = @ + 1]
    /\ UNCHANGED <<rc_shared, rc_heap, rc_obs, dvars, hpvars, evars, aavars, qvars>>

\* The loop of StaccInner::pop starts over.
RCPopReload(h) ==
    /\ rc_handles[h].pc = "pop_load"
    /\ rc_handles' = RCLoadHead(h)
    /\ UNCHANGED <<rc_shared, rc_heap, rc_obs, dvars, hpvars, evars, aavars, qvars>>

\* head_ref.counter.fetch_add(1)
RCPopInc(h) ==
    LET l == rc_handles[h].loc IN
    /\ rc_handles[h].pc = "pop_inc"
    /\ rc_heap' = [rc_heap EXCEPT ![l.head].counter = @ + 1]
    /\ rc_handles' = [rc_handles EXCEPT ![h].pc = "pop_next"]
    /\ UNCHANGED <<rc_shared, rc_obs, dvars, hpvars, evars, aavars, qvars>>

\* let newhead = head_ref.next;
RCPopNext(h) ==
    LET l == rc_handles[h].loc IN
    /\ rc_handles[h].pc = "pop_next"
    /\ rc_handles' = [rc_handles EXCEPT ![h].pc = "pop_cas",
                                        ![h].loc.newhead = rc_heap[l.head].next]
    /\ UNCHANGED <<rc_shared, rc_heap, rc_obs, dvars, hpvars, evars, aavars, qvars>>

\* self.head.compare_exchange_weak(head, newhead): it may fail although head
\* is the expected value.
RCPopCas(h) ==
    LET l == rc_handles[h].loc IN
    /\ rc_handles[h].pc = "pop_cas"
    /\ \E ok \in {rc_shared.head = l.head, FALSE} :
          IF ok
          THEN /\ rc_shared' = [rc_shared EXCEPT !.head = l.newhead]
               /\ rc_handles' = [rc_handles EXCEPT ![h].pc = "pop_len"]
          ELSE /\ rc_handles' = [rc_handles EXCEPT ![h].pc = "pop_dec"]
               /\ UNCHANGED rc_shared
    /\ UNCHANGED <<rc_heap, rc_obs, dvars, hpvars, evars, aavars, qvars>>

\* After a failed exchange: head_ref.counter.fetch_sub(1)
RCPopDec(h) ==
    LET l == rc_handles[h].loc IN
    /\ rc_handles[h].pc = "pop_dec"
    /\ rc_heap' = [rc_heap EXCEPT ![l.head].counter = @ - 1]
    /\ rc_handles' = [rc_handles EXCEPT ![h].pc = "pop_load"]
    /\ UNCHANGED <<rc_shared, rc_obs, dvars, hpvars, evars, aavars, qvars>>

\* After the exchange: self.len.fetch_sub(1); return Some(head)
RCPopLen(h) ==
    /\ rc_handles[h].pc = "pop_len"
    /\ rc_shared' = [rc_shared EXCEPT !.len = UsizeAdd(@, -1)]
    /\ rc_handles' = [rc_handles EXCEPT ![h].pc = "pop_own"]
    /\ UNCHANGED <<rc_heap, rc_obs, dvars, hpvars, evars, aavars, qvars>>

\* Stacc::pop: nonnull.as_ref().counter.fetch_sub(1)
RCPopOwn(h) ==
    LET l == rc_handles[h].loc IN
    /\ rc_handles[h].pc = "pop_own"
    /\ rc_heap' = [rc_heap EXCEPT ![l.head].counter = @ - 1]
    /\ rc_handles' = [rc_handles EXCEPT ![h].pc = "pop_item"]
    /\ UNCHANGED <<rc_shared, rc_obs, dvars, hpvars, evars, aavars, qvars>>

\* let item = ptr::read(&boxed.item); self.local_garbage.push(boxed);
\* return Some(item)
RCPopItem(h) ==
    LET l == rc_handles[h].loc IN
    /\ rc_handles[h].pc = "pop_item"
    /\ rc_obs' = [rc_obs EXCEPT !.returned = Counted(@, rc_heap[l.head].item)]
    /\ rc_handles' = [rc_handles EXCEPT
                        ![h].pc = "idle", ![h].loc = RCNoLocals,
                        ![h].local_garbage = Append(@, l.head)]
    /\ UNCHANGED <<rc_shared, rc_heap, dvars, hpvars, evars, aavars, qvars>>

\* impl Drop for Stacc: let mut lock = self.inner.global_garbage.lock()
RCDropLock(h) ==
    /\ rc_handles[h].pc = "idle"
    /\ rc_shared.global_garbage_lock = 0
    /\ rc_shared' = [rc_shared EXCEPT !.global_garbage_lock = h]
    /\ rc_handles' = [rc_handles EXCEPT ![h].pc = "drop_loop"]
    /\ UNCHANGED <<rc_heap, rc_obs, dvars, hpvars, evars, aavars, qvars>>

\* for ptr in self.local_garbage.iter().copied(): counter.load(Acquire);
\* if counter == 0 { drop(Box::from_raw(ptr)) } else { lock.push(ptr) }.
\* The pointers the loop is done with leave the record's local_garbage.
RCDropNode(h) ==
    LET ptr == Head(rc_handles[h].local_garbage) IN
    /\ rc_handles[h].pc = "drop_loop"
    /\ rc_handles[h].local_garbage # << >>
    /\ IF rc_heap[ptr].counter = 0
       THEN /\ rc_obs' = [rc_obs EXCEPT !.freed = Counted(@, ptr)]
            /\ UNCHANGED rc_shared
       ELSE /\ rc_shared' = [rc_shared EXCEPT
                               !.global_garbage = Append(@, ptr)]
            /\ UNCHANGED rc_obs
    /\ rc_handles' = [rc_handles EXCEPT ![h].local_garbage = Tail(@)]
    /\ UNCHANGED <<rc_heap, dvars, hpvars, evars, aavars, qvars>>

\* nonnull_to_box over global_garbage (Drop for StaccInner): the boxes are
\* freed in order up to the first whose counter is not 0, where assert_eq
\* panics.
RECURSIVE RCGarbageFreed(_)
RCGarbageFreed(g) ==
    IF g = << >> \/ rc_heap[Head(g)].counter # 0 THEN << >>
    ELSE <<Head(g)>> \o RCGarbageFreed(Tail(g))

\* Drop for StaccInner: the global garbage is freed; then
\* while let Some(ptr) = self.pop() { nonnull_to_box(ptr) ... }: pop leaves
\* the counter of the node it returns incremented, so that nonnull_to_box
\* panics on the first node that is still linked.
RCInnerDrop ==
    LET done == RCGarbageFreed(rc_shared.global_garbage) IN
    [freed |-> done,
     panicked |-> Len(done) < Len(rc_shared.global_garbage)
                     \/ rc_shared.head # Null]

\* The handles that have not been dropped, h apart.
RCOthersAlive(h) ==
    {g \in RCHandles \ {h} : rc_handles[g].pc \notin {"dropped", "panicked"}}

\* The end of Drop for Stacc: the guard is released; the handle that held
\* the last Arc drops StaccInner.
RCDropUnlock(h) ==
    LET last == RCOthersAlive(h) = {}
        inner == RCInnerDrop
    IN
    /\ rc_handles[h].pc = "drop_loop"
    /\ rc_handles[h].local_garbage = << >>
    /\ rc_shared' = [rc_shared EXCEPT !.global_garbage_lock = 0]
    /\ rc_obs' = IF last
                 THEN [rc_obs EXCEPT !.freed = CountedAll(@, inner.freed)]
                 ELSE rc_obs
    /\ rc_handles' = [rc_handles EXCEPT
                        ![h].pc = IF last /\ inner.panicked THEN "panicked"
                                  ELSE "dropped"]
    /\ UNCHANGED <<rc_heap, dvars, hpvars, evars, aavars, qvars>>

\* ======================================================================
\* Epoch-based stack (stacc_lockfree_ebr.rs)
\* ======================================================================
\* The plain (non-atomic) writes of a node's fields are visible to another
\* thread only after a release store of the writer that an acquire of the
\* reader synchronizes with. The model keeps, per handle, the boxes whose
\* contents it is sure to see (`seen`), per atomic is_active flag the boxes
\* its last store released (`view`), and per handle what its relaxed loads
\* of the flags have read and the next acquire fence will make visible
\* (`pending`). Every exchange on top stores with Relaxed (its success
\* ordering is Acquire), so top releases nothing.

\* ThreadLocal::new()
EThreadLocal == [current_epoch |-> 0, is_active |-> FALSE, view |-> {}]

\* Shared::new()
ESharedNew ==
    [top |-> Null, threads |-> [i \in 0..(MAX_THREADS - 1) |-> EThreadLocal],
     global_epoch |-> 0, thread_counter |-> 0]

\* The locals of a handle that runs no call.
ENoLocals == [x |-> NoVal, top |-> Null, node |-> Null, next |-> Null,
              data |-> NoVal, want |-> NoVal, current_epoch |-> 0,
              old_epoch |-> 0, readNull |-> FALSE, dropping |-> FALSE]

\* A handle as Local::new and clone build it.
EHandle(id) ==
    [thread_id |-> id, limbo |-> << << >>, << >>, << >> >>, garbage |-> << >>,
     pc |-> "idle", loc |-> ENoLocals, ops |-> 0, seen |-> {}, pending |-> {}]

\* Local::new() takes thread_id 0 and leaves thread_counter at 0; each of
\* the k - 1 clones takes thread_counter.fetch_add(1).
EInit(k) ==
    /\ e_shared = [ESharedNew EXCEPT !.thread_counter = k - 1]
    /\ e_heap = << >>
    /\ e_handles = [h \in 1..k |-> EHandle(IF h = 1 THEN 0 ELSE h - 2)]
    /\ e_obs = [npush |-> 0, abs |-> << >>, returned |-> << >>,
                freed |-> << >>]

\* k handles on a Shared whose global epoch and whose first ENumHandles
\* slots hold any epoch up to EMaxEpoch and any flag: start_shared_section
\* for every content of the slot table.
EInitAny(k) ==
    /\ \E g \in 0..EMaxEpoch :
       \E ep \in [0..(ENumHandles - 1) -> 0..EMaxEpoch] :
       \E act \in [0..(ENumHandles - 1) -> BOOLEAN] :
          e_shared = [ESharedNew EXCEPT
             !.thread_counter = k - 1,
             !.global_epoch = g,
             !.threads = [i \in DOMAIN @ |->
                 IF i < ENumHandles
                 THEN [@[i] EXCEPT !.current_epoch = ep[i],
                                   !.is_active = act[i]]
                 ELSE @[i]]]
    /\ e_heap = << >>
    /\ e_handles = [h \in 1..k |-> EHandle(IF h = 1 THEN 0 ELSE h - 2)]
    /\ e_obs = [npush |-> 0, abs |-> << >>, returned |-> << >>,
                freed |-> << >>]

EHandles == DOMAIN e_handles

\* get_node: a box of the garbage is overwritten with the new node
\* (*p = node); without one, the node is boxed.
EGetNode(h, node) ==
    LET g == e_handles[h].garbage IN
    IF g = << >>
    THEN [addr |-> Len(e_heap) + 1, box |-> node, garbage |-> g]
    ELSE [addr |-> Last(g), box |-> node, garbage |-> Front(g)]

\* The heap with `box` at `addr` (a fresh address extends it).
EStore(addr, box) ==
    [a \in DOMAIN e_heap \cup {addr} |-> IF a = addr THEN box ELSE e_heap[a]]

\* push: let mut top = top.load(Acquire); let node = Node { next: top,
\* data }; let node = self.get_node(node);
ECallPush(h) ==
    LET x == e_obs.npush + 1
        got == EGetNode(h, [data |-> x, next |-> e_shared.top])
    IN
    /\ e_handles[h].pc = "idle"
    /\ e_handles[h].ops < EMaxOps
    /\ e_obs' = [e_obs EXCEPT !.npush = x]
    /\ e_heap' = EStore(got.addr, got.box)
    /\ e_handles' = [e_handles EXCEPT
                       ![h].pc = "push_cas",
                       ![h].ops = @ + 1,
                       ![h].garbage = got.garbage,
                       ![h].seen = @ \cup {got.addr},
                       ![h].loc.x = x,
                       ![h].loc.top = e_shared.top,
                       ![h].loc.node = got.addr]
    /\ UNCHANGED <<e_shared, dvars, hpvars, rcvars, aavars, qvars>>

\* top.compare_exchange_weak(top, node, Acquire, Acquire): it may fail
\* although top is the expected value; its store is Relaxed.
\* Err(newtop) => (*node).next = newtop; top = newtop. Ok => push returns.
EPushCas(h) ==
    LET l == e_handles[h].loc IN
    /\ e_handles[h].pc = "push_cas"
    /\ \E ok \in {e_shared.top = l.top, FALSE} :
          IF ok
          THEN /\ e_shared' = [e_shared EXCEPT !.top = l.node]
               /\ e_obs' = [e_obs EXCEPT !.abs = <<l.x>> \o @]
               /\ e_handles' = [e_handles EXCEPT ![h].pc = "idle",
                                                 ![h].loc = ENoLocals]
               /\ UNCHANGED e_heap
          ELSE /\ e_heap' = [e_heap EXCEPT ![l.node].next = e_shared.top]
               /\ e_handles' = [e_handles EXCEPT ![h].loc.top = e_shared.top]
               /\ UNCHANGED <<e_shared, e_obs>>
    /\ UNCHANGED <<dvars, hpvars, rcvars, aavars, qvars>>

\* pop: mark_use: start_shared_section:
\* threads[thread_id].is_active.store(true, SeqCst); fence(Acquire).
\* The index is bounds-checked, a thread_id >= MAX_THREADS panics.
EEnterPop(h, calls) ==
    LET id == e_handles[h].thread_id IN
    /\ e_handles[h].pc = "idle"
    /\ IF id >= MAX_THREADS
       THEN /\ e_handles' = [e_handles EXCEPT ![h].pc = "panicked"]
            /\ UNCHANGED e_shared
       ELSE /\ e_shared' = [e_shared EXCEPT
                              !.threads[id].is_active = TRUE,
                              !.threads[id].view = e_handles[h].seen]
            /\ e_handles' = [e_handles EXCEPT
                               ![h].pc = "pop_epoch",
                               ![h].ops = calls,
                               ![h].seen = @ \cup e_handles[h].pending,
                               ![h].pending = {}]
    /\ UNCHANGED <<e_heap, e_obs, dvars, hpvars, rcvars, aavars, qvars>>

\* A pop within the handle's budget of calls.
ECallPop(h) ==
    /\ e_handles[h].ops < EMaxOps
    /\ EEnterPop(h, e_handles[h].ops + 1)

\* A pop of a handle that keeps calling pop: the calls are not counted.
EPopAgain(h) == EEnterPop(h, e_handles[h].ops)

\* let current_epoch = self.global_epoch.load(Relaxed);
EPopLoadEpoch(h) ==
    /\ e_handles[h].pc = "pop_epoch"
    /\ e_handles' = [e_handles EXCEPT
                       ![h].pc = "pop_swap",
                       ![h].loc.current_epoch = e_shared.global_epoch]
    /\ UNCHANGED <<e_shared, e_heap, e_obs, dvars, hpvars, rcvars, aavars, qvars>>

\* let old_epoch = threads[thread_id].current_epoch.swap(current_epoch);
EPopSwapEpoch(h) ==
    LET id == e_handles[h].thread_id
        l == e_handles[h].loc
    IN
    /\ e_handles[h].pc = "pop_swap"
    /\ e_shared' = [e_shared EXCEPT
                      !.threads[id].current_epoch = l.current_epoch]
    /\ e_handles' = [e_handles EXCEPT
                       ![h].pc = "pop_scan",
                       ![h].loc.old_epoch =
                            e_shared.threads[id].current_epoch]
    /\ UNCHANGED <<e_heap, e_obs, dvars, hpvars, rcvars, aavars, qvars>>

\* have_all_threads_seen_epoch: every thread whose is_active is set has
\* current_epoch == current_epoch of the caller.
EHaveAllSeen(threads, epoch) ==
    \A i \in DOMAIN threads :
        threads[i].is_active => threads[i].current_epoch = epoch

\* if have_all_threads_seen_epoch { return (old_epoch, current_epoch); }
\* the compare_exchange of global_epoch follows the return: it is reached
\* when have_all_threads_seen_epoch is false.
EAdvanceAttempted(threads, epoch) == ~EHaveAllSeen(threads, epoch)

\* mark_use: min(next - prev, self.limbo.len()); the subtraction of usize
\* wraps (release build) or panics (debug build) when prev > next.
Panic == -1
EDiffs(prev, next) ==
    IF next >= prev THEN {Min(next - prev, 3)} ELSE {3, Panic}

\* mark_use: the first diff limbo lists are drained into the garbage, then
\* limbo.rotate_left(diff).
EDrained(limbo, diff) ==
    IF diff = 0 THEN << >>
    ELSE IF diff = 1 THEN limbo[1]
    ELSE IF diff = 2 THEN limbo[1] \o limbo[2]
    ELSE limbo[1] \o limbo[2] \o limbo[3]

ERotated(limbo, diff) ==
    LET kept == [i \in 1..3 |-> IF i <= diff THEN << >> ELSE limbo[i]] IN
    [i \in 1..3 |-> kept[((i - 1 + diff) % 3) + 1]]

\* The rest of start_shared_section and of mark_use: the flags and epochs
\* of all threads are read (Relaxed); if all active threads have the
\* caller's epoch the function returns, otherwise it tries
\* global_epoch.compare_exchange(current_epoch, current_epoch + 1).
\* Then mark_use moves limbo lists to the garbage.
EPopScan(h) ==
    LET l == e_handles[h].loc
        views == UNION {e_shared.threads[i].view : i \in DOMAIN e_shared.threads}
    IN
    /\ e_handles[h].pc = "pop_scan"
    /\ e_shared' =
          IF EAdvanceAttempted(e_shared.threads, l.current_epoch)
             /\ e_shared.global_epoch = l.current_epoch
          THEN [e_shared EXCEPT !.global_epoch = l.current_epoch + 1]
          ELSE e_shared
    /\ \E diff \in EDiffs(l.old_epoch, l.current_epoch) :
          e_handles' =
             IF diff = Panic
             THEN [e_handles EXCEPT ![h].pc = "panicked"]
             ELSE [e_handles EXCEPT
                     ![h].pc = IF l.dropping THEN "drop_end" ELSE "pop_top",
                     ![h].pending = @ \cup views,
                     ![h].garbage = @ \o EDrained(e_handles[h].limbo, diff),
                     ![h].limbo = ERotated(@, diff)]
    /\ UNCHANGED <<e_heap, e_obs, dvars, hpvars, rcvars, aavars, qvars>>

\* let mut top = self.shared.top.load(Acquire);
EPopLoadTop(h) ==
    /\ e_handles[h].pc = "pop_top"
    /\ e_handles' = [e_handles EXCEPT
                       ![h].pc = "pop_loop",
                       ![h].loc.top = e_shared.top,
                       ![h].loc.readNull = (e_shared.top = Null)]
    /\ UNCHANGED <<e_shared, e_heap, e_obs, dvars, hpvars, rcvars, aavars, qvars>>

\* A plain read of a field of box p by handle h: the value the field holds
\* if the write is visible to h; otherwise the read races with the write
\* and may as well find what the memory held before it (`before`).
ERead(h, p, value, before) ==
    IF p \in e_handles[h].seen THEN {value} ELSE {value, before}

\* if top.is_null() { return None }  let next = (*top).next;
EPopNext(h) ==
    LET l == e_handles[h].loc IN
    /\ e_handles[h].pc = "pop_loop"
    /\ IF l.top = Null
       THEN e_handles' = [e_handles EXCEPT ![h].pc = "pop_none"]
       ELSE \E nx \in ERead(h, l.top, e_heap[l.top].next, Null) :
               e_handles' = [e_handles EXCEPT ![h].pc = "pop_cas",
                                              ![h].loc.next = nx]
    /\ UNCHANGED <<e_shared, e_heap, e_obs, dvars, hpvars, rcvars, aavars, qvars>>

\* return None (the shared section is not ended)
EPopNone(h) ==
    /\ e_handles[h].pc = "pop_none"
    /\ e_handles' = [e_handles EXCEPT ![h].pc = "idle", ![h].loc = ENoLocals]
    /\ UNCHANGED <<e_shared, e_heap, e_obs, dvars, hpvars, rcvars, aavars, qvars>>

\* top.compare_exchange_weak(top, next, Acquire, Acquire):
\* Ok(_) => break top, Err(newertop) => top = newertop
EPopCas(h) ==
    LET l == e_handles[h].loc IN
    /\ e_handles[h].pc = "pop_cas"
    /\ \E ok \in {e_shared.top = l.top, FALSE} :
          IF ok
          THEN /\ e_shared' = [e_shared EXCEPT !.top = l.next]
               /\ e_obs' = [e_obs EXCEPT
                    !.abs = IF @ = << >> THEN @ ELSE Tail(@)]
               /\ e_handles' = [e_handles EXCEPT
                    ![h].pc = "pop_data",
                    ![h].loc.want = IF e_obs.abs = << >> THEN NoVal
                                    ELSE Head(e_obs.abs)]
          ELSE /\ e_handles' = [e_handles EXCEPT
                    ![h].pc = "pop_loop",
                    ![h].loc.top = e_shared.top,
                    ![h].loc.readNull = (e_shared.top = Null)]
               /\ UNCHANGED <<e_shared, e_obs>>
    /\ UNCHANGED <<e_heap, dvars, hpvars, rcvars, aavars, qvars>>

\* let data = ptr::read((*oldtop).data.as_ptr());
EPopData(h) ==
    LET l == e_handles[h].loc IN
    /\ e_handles[h].pc = "pop_data"
    /\ \E d \in ERead(h, l.top, e_heap[l.top].data, Uninit) :
          e_handles' = [e_handles EXCEPT ![h].pc = "pop_defer",
                                         ![h].loc.data = d]
    /\ UNCHANGED <<e_shared, e_heap, e_obs, dvars, hpvars, rcvars, aavars, qvars>>

\* self.defer(oldtop): end_shared_section stores is_active = false
\* (Release); the pointer goes to the last limbo list. return Some(data)
EPopDefer(h) ==
    LET l == e_handles[h].loc
        id == e_handles[h].thread_id
    IN
    /\ e_handles[h].pc = "pop_defer"
    /\ e_shared' = [e_shared EXCEPT
                      !.threads[id].is_active = FALSE,
                      !.threads[id].view = e_handles[h].seen]
    /\ e_obs' = [e_obs EXCEPT !.returned = Counted(@, l.data)]
    /\ e_handles' = [e_handles EXCEPT
                       ![h].pc = "idle", ![h].loc = ENoLocals,
                       ![h].limbo[3] = Append(@, l.top)]
    /\ UNCHANGED <<e_heap, dvars, hpvars, rcvars, aavars, qvars>>

\* impl Drop for Local: self.mark_use() enters the shared section as pop
\* does.
EEnterDrop(h) ==
    LET id == e_handles[h].thread_id IN
    /\ e_handles[h].pc = "idle"
    /\ IF id >= MAX_THREADS
       THEN /\ e_handles' = [e_handles EXCEPT ![h].pc = "panicked"]
            /\ UNCHANGED e_shared
       ELSE /\ e_shared' = [e_shared EXCEPT
                              !.threads[id].is_active = TRUE,
                              !.threads[id].view = e_handles[h].seen]
            /\ e_handles' = [e_handles EXCEPT
                               ![h].pc = "pop_epoch",
                               ![h].loc.dropping = TRUE,
                               ![h].seen = @ \cup e_handles[h].pending,
                               ![h].pending = {}]
    /\ UNCHANGED <<e_heap, e_obs, dvars, hpvars, rcvars, aavars, qvars>>

\* Drop for Shared: the boxes linked from top are freed one after the
\* other; n bounds the walk.
RECURSIVE ESharedDrop(_, _)
ESharedDrop(p, n) ==
    IF p = Null \/ n = 0 THEN << >>
    ELSE <<p>> \o ESharedDrop(e_heap[p].next, n - 1)

\* The handles that have not been dropped, h apart.
EOthersAlive(h) == {g \in EHandles \ {h} : e_handles[g].pc # "dropped"}

\* The end of Drop for Local: end_shared_section stores is_active = false;
\* then the fields are dropped. garbage is a Vec<Box<..>>: its boxes are
\* freed. limbo holds raw pointers: the vectors are freed, the nodes they
\* point to are not (TODO: don't leak pointers in limbo). The handle that
\* held the last Arc drops Shared. The limbo of the record keeps the
\* pointers that were in it.
EDropEnd(h) ==
    LET id == e_handles[h].thread_id
        own == e_handles[h].garbage
        linked == IF EOthersAlive(h) = {}
                  THEN ESharedDrop(e_shared.top, Len(e_heap))
                  ELSE << >>
    IN
    /\ e_handles[h].pc = "drop_end"
    /\ e_shared' = [e_shared EXCEPT
                      !.threads[id].is_active = FALSE,
                      !.threads[id].view = e_handles[h].seen]
    /\ e_obs' = [e_obs EXCEPT !.freed = CountedAll(@, own \o linked)]
    /\ e_handles' = [e_handles EXCEPT
                       ![h].pc = "dropped", ![h].loc = ENoLocals,
                       ![h].garbage = << >>]
    /\ UNCHANGED <<e_heap, dvars, hpvars, rcvars, aavars, qvars>>

\* ======================================================================
\* AtomicArc (atomic_arc.rs)
\* ======================================================================
\* An Arc<T> is a pointer to an allocation with a strong count; into_raw and
\* from_raw move a handle to and from a raw pointer without touching the
\* count, clone increments it, drop decrements it and frees the allocation
\* at 0.
AANoThread == [pc |-> "idle", ptr |-> Null, arcs |-> << >>]

\* AtomicArc::from_arc(Arc::new(..)): the slot owns the one handle of the
\* first allocation; k threads share the AtomicArc.
AAInit(k) ==
    /\ aa_ptr = 1
    /\ aa_heap = <<[strong |-> 1, freed |-> FALSE]>>
    /\ aa_threads = [t \in 1..k |-> AANoThread]
    /\ aa_ops = 0

AAThreads == DOMAIN aa_threads

\* The sequence without its i-th element (a handle moved out of a thread).
AAWithout(arcs, i) ==
    [j \in 1..(Len(arcs) - 1) |-> IF j < i THEN arcs[j] ELSE arcs[j + 1]]

\* What a caller passes as `other` / `new`: None (0) or one of its Arcs, given
\* by its position.
AAArgs(t) == {0} \cup DOMAIN aa_threads[t].arcs

\* ptr_from_arc: None => null, Some(a) => Arc::into_raw(a).
ptr_from_arc(t, arg) == IF arg = 0 THEN Null ELSE aa_threads[t].arcs[arg]

\* The handles of thread t after it gave away `arg` (ptr_from_arc) and got
\* arc_from_ptr(ptr) back: null => None, else Some(Arc::from_raw(ptr)).
arc_from_ptr(t, arg, ptr) ==
    LET rest == IF arg = 0 THEN aa_threads[t].arcs
                ELSE AAWithout(aa_threads[t].arcs, arg)
    IN IF ptr = Null THEN rest ELSE Append(rest, ptr)

\* Arc::new(value) by a caller: a fresh allocation with strong count 1.
AANew(t) ==
    /\ aa_threads[t].pc = "idle"
    /\ Len(aa_heap) < AAMaxAllocs
    /\ aa_heap' = Append(aa_heap, [strong |-> 1, freed |-> FALSE])
    /\ aa_threads' = [aa_threads EXCEPT ![t].arcs = Append(@, Len(aa_heap) + 1)]
    /\ UNCHANGED <<aa_ptr, aa_ops>>
    /\ UNCHANGED <<dvars, hpvars, rcvars, evars, qvars>>

\* load: let ptr = self.ptr.load(Acquire); if ptr.is_null() return None.
AALoadPtr(t) ==
    /\ aa_threads[t].pc = "idle"
    /\ aa_ops < AAMaxOps
    /\ aa_ops' = aa_ops + 1
    /\ aa_threads' = [aa_threads EXCEPT
                        ![t].pc = IF aa_ptr = Null THEN "idle" ELSE "load_clone",
                        ![t].ptr = aa_ptr]
    /\ UNCHANGED <<aa_ptr, aa_heap>>
    /\ UNCHANGED <<dvars, hpvars, rcvars, evars, qvars>>

\* load: Arc::from_raw(ptr).clone(); forget(oldarc); return Some(newarc).
\* The clone increments the strong count stored in the allocation; on a
\* freed allocation that is a use after free, after which the thread either
\* goes on with a handle to the freed memory or crashes.
AALoadClone(t) ==
    LET a == aa_threads[t].ptr IN
    /\ aa_threads[t].pc = "load_clone"
    /\ \E outcome \in IF aa_heap[a].freed THEN {"handle", "crash"}
                      ELSE {"handle"} :
          IF outcome = "handle"
          THEN /\ aa_heap' = [aa_heap EXCEPT ![a].strong = @ + 1]
               /\ aa_threads' = [aa_threads EXCEPT ![t].pc = "idle",
                                                   ![t].ptr = Null,
                                                   ![t].arcs = Append(@, a)]
          ELSE /\ aa_threads' = [aa_threads EXCEPT ![t].pc = "crashed"]
               /\ UNCHANGED aa_heap
    /\ UNCHANGED <<aa_ptr, aa_ops>>
    /\ UNCHANGED <<dvars, hpvars, rcvars, evars, qvars>>

\* swap(other): self.ptr.swap(ptr_from_arc(other), AcqRel), the old pointer
\* comes back as an Arc. Drop for AtomicArc is swap(None).
AASwap(t, other) ==
    /\ aa_threads[t].pc = "idle"
    /\ aa_ops < AAMaxOps
    /\ aa_ops' = aa_ops + 1
    /\ aa_ptr' = ptr_from_arc(t, other)
    /\ aa_threads' = [aa_threads EXCEPT ![t].arcs = arc_from_ptr(t, other, aa_ptr)]
    /\ UNCHANGED aa_heap
    /\ UNCHANGED <<dvars, hpvars, rcvars, evars, qvars>>

\* compare_maybe_exchange(current, new): compare_exchange_weak, which may
\* fail although ptr is `current`. Ok(p) => Ok(arc_from_ptr(p)),
\* Err(_) => Err(arc_from_ptr(new_ptr)).
AACompareMaybeExchange(t, current, new) ==
    /\ aa_threads[t].pc = "idle"
    /\ aa_ops < AAMaxOps
    /\ aa_ops' = aa_ops + 1
    /\ \E ok \in {aa_ptr = current, FALSE} :
          IF ok
          THEN /\ aa_ptr' = ptr_from_arc(t, new)
               /\ aa_threads' = [aa_threads EXCEPT
                                   ![t].arcs = arc_from_ptr(t, new, aa_ptr)]
          ELSE /\ aa_threads' = [aa_threads EXCEPT
                                   ![t].arcs = arc_from_ptr(t, new,
                                                   ptr_from_arc(t, new))]
               /\ UNCHANGED aa_ptr
    /\ UNCHANGED aa_heap
    /\ UNCHANGED <<dvars, hpvars, rcvars, evars, qvars>>

\* drop of an Arc a caller got from load, swap or compare_maybe_exchange:
\* the strong count goes down by one and the allocation is freed at 0.
AADropArc(t, i) ==
    LET a == aa_threads[t].arcs[i] IN
    /\ aa_threads[t].pc = "idle"
    /\ aa_heap' = [aa_heap EXCEPT ![a].strong = @ - 1,
                                  ![a].freed = @ \/ aa_heap[a].strong = 1]
    /\ aa_threads' = [aa_threads EXCEPT ![t].arcs = AAWithout(@, i)]
    /\ UNCHANGED <<aa_ptr, aa_ops>>
    /\ UNCHANGED <<dvars, hpvars, rcvars, evars, qvars>>

\* ======================================================================
\* SPSC ring buffer (spsc_queue.rs)
\* ======================================================================
\* data: [UnsafeCell<MaybeUninit<T>>; 256]
QCap == 256

\* `& mask` with mask = cap - 1, applied to a wrapping_add / wrapping_sub of
\* an index below cap.
Masked(n) == n % QCap

\* The queues a run starts from: empty, after k pushes and k pops (head and
\* tail are k, the slots below k have been moved out).
QStarts == {0, QCap - 2, QCap - 1}

QInit(k) ==
    /\ q_inner = [head |-> k, tail |-> k,
                  data |-> [i \in 0..(QCap - 1) |->
                               IF i < k THEN 0 - (i + 1) ELSE Uninit]]
    /\ q_drop = [pc |-> "live", tail |-> 0]
    /\ q_obs = [npush |-> k, calls |-> 0, dropped |-> << >>]

\* QueueProducer::push(x), x tagged with the number of the push:
\* `if newtail == head { return Some(x) }`, else write data[tail] and store
\* newtail.
QPush ==
    LET newtail == Masked(q_inner.tail + 1) IN
    /\ q_drop.pc = "live"
    /\ q_obs.calls < QMaxOps
    /\ q_obs' = [q_obs EXCEPT !.npush = @ + 1, !.calls = @ + 1]
    /\ q_inner' = IF newtail = q_inner.head THEN q_inner
                  ELSE [q_inner EXCEPT !.data[q_inner.tail] = q_obs.npush + 1,
                                       !.tail = newtail]
    /\ UNCHANGED q_drop
    /\ UNCHANGED <<dvars, hpvars, rcvars, evars, aavars>>

\* QueueConsumer::pop(): `if head == tail { return None }`, else
\* ptr::read(data[head]) and store newhead.
QPop ==
    /\ q_drop.pc = "live"
    /\ q_obs.calls < QMaxOps
    /\ q_obs' = [q_obs EXCEPT !.calls = @ + 1]
    /\ q_inner' = IF q_inner.head = q_inner.tail THEN q_inner
                  ELSE [q_inner EXCEPT !.data[q_inner.head] = 0 - @,
                                       !.head = Masked(q_inner.head + 1)]
    /\ UNCHANGED q_drop
    /\ UNCHANGED <<dvars, hpvars, rcvars, evars, aavars>>

\* The consumer and the producer are dropped, the Arc's count reaches 0 and
\* Drop for QueueInner starts: let mut tail = *self.tail.get_mut().
QDropBegin ==
    /\ q_drop.pc = "live"
    /\ q_drop' = [pc |-> "dropping", tail |-> q_inner.tail]
    /\ UNCHANGED <<q_inner, q_obs>>
    /\ UNCHANGED <<dvars, hpvars, rcvars, evars, aavars>>

\* One round of `while tail != head`: drop(ptr::read(data[tail])),
\* tail = tail.wrapping_sub(1) & mask.
QDropSlot ==
    /\ q_drop.pc = "dropping"
    /\ q_drop.tail # q_inner.head
    /\ q_obs' = [q_obs EXCEPT !.dropped = Append(@, q_drop.tail)]
    /\ q_drop' = [q_drop EXCEPT !.tail = Masked(@ - 1)]
    /\ UNCHANGED q_inner
    /\ UNCHANGED <<dvars, hpvars, rcvars, evars, aavars>>

\* `while tail != head` ends.
QDropEnd ==
    /\ q_drop.pc = "dropping"
    /\ q_drop.tail = q_inner.head
    /\ q_drop' = [q_drop EXCEPT !.pc = "dropped"]
    /\ UNCHANGED <<q_inner, q_obs>>
    /\ UNCHANGED <<dvars, hpvars, rcvars, evars, aavars>>

\* ======================================================================
\* Handle creation of the stacks with a slot table
\* ======================================================================
\* The runs that only create handles stop after this many.
MaxClones == MAX_THREADS + 2

\* impl Clone for LockFreeStacc:
\* thread_number = shared.counter.fetch_add(1, AcqRel); the new handle is
\* returned whatever the number is.
HPClone(h) ==
    /\ hp_handles[h].pc = "idle"
    /\ Len(hp_handles) < MaxClones
    /\ hp_shared' = [hp_shared EXCEPT !.counter = @ + 1]
    /\ hp_handles' = Append(hp_handles, HPHandle(hp_shared.counter))
    /\ UNCHANGED <<hp_heap, hp_obs, dvars, rcvars, evars, aavars, qvars>>

\* impl Clone for Local:
\* thread_id = shared.thread_counter.fetch_add(1, Relaxed); the new handle
\* is returned whatever the number is.
EClone(h) ==
    /\ e_handles[h].pc = "idle"
    /\ Len(e_handles) < MaxClones
    /\ e_shared' = [e_shared EXCEPT !.thread_counter = @ + 1]
    /\ e_handles' = Append(e_handles, EHandle(e_shared.thread_counter))
    /\ UNCHANGED <<e_heap, e_obs, dvars, hpvars, rcvars, aavars, qvars>>

\* --------------------------------------------------- specifications
\* In the runs of one stack the other stacks stay as constructed.
DUnused == InitBuffers(0, 1)
RCUnused == RCInit(1)
EUnused == EInit(1)
AAUnused == AAInit(1)
QUnused == QInit(0)

\* The double-buffer stack used by NumThreads cloned handles.
Init == HPInit /\ RCUnused /\ EUnused /\ \E n \in 0..MaxCap : InitBuffers(n, NumThreads) /\ AAUnused /\ QUnused

Next ==
    \/ \E t \in Threads : CallPush(t)
    \/ \E t \in Threads : CallPop(t)
    \/ \E t \in Threads : CallLen(t)
    \/ \E t \in Threads : PushFetchAdd(t)
    \/ \E t \in Threads : PushFetchMin(t)
    \/ \E t \in Threads : PushWrite(t)
    \/ \E t \in Threads : PushCheckPoppers(t)
    \/ \E t \in Threads : PushReturnSome(t)
    \/ \E t \in Threads : SwapTryLock(t)
    \/ \E t \in Threads : SwapWait(t)
    \/ \E t \in Threads : SwapWritePoppers(t)
    \/ \E t \in Threads : SwapWritePushers(t)
    \/ \E t \in Threads : SwapDo(t)
    \/ \E t \in Threads : PopFetchSub(t)
    \/ \E t \in Threads : PopFetchMax(t)
    \/ \E t \in Threads : PopRead(t)
    \/ \E t \in Threads : PopCheckPushers(t)
    \/ \E t \in Threads : PopReturnNone(t)
    \/ \E t \in Threads : LenPoppers(t)

Spec == Init /\ [][Next]_vars

\* The double-buffer stack with every caller on a thread of its own that the
\* scheduler runs again and again, and with the eventually fair locks of
\* parking_lot: a thread that can take a step eventually takes one.
LiveStep(t) ==
    \/ CallPush(t)
    \/ CallPop(t)
    \/ CallLen(t)
    \/ PushFetchAdd(t)
    \/ PushFetchMin(t)
    \/ PushWrite(t)
    \/ PushCheckPoppers(t)
    \/ PushReturnSome(t)
    \/ SwapTryLock(t)
    \/ SwapWait(t)
    \/ SwapWritePoppers(t)
    \/ SwapWritePushers(t)
    \/ SwapDo(t)
    \/ PopFetchSub(t)
    \/ PopFetchMax(t)
    \/ PopRead(t)
    \/ PopCheckPushers(t)
    \/ PopReturnNone(t)
    \/ LenPoppers(t)

Fair == \A t \in 1..NumThreads : SF_vars(LiveStep(t))

SpecLive == Init /\ [][Next]_vars /\ Fair

\* The double-buffer stack used by one thread: try_lock always succeeds, so
\* SwapWait is never reached.
InitSeq == HPInit /\ RCUnused /\ EUnused /\ \E n \in 0..MaxCap : InitBuffers(n, 1) /\ AAUnused /\ QUnused

NextSeq ==
    \/ \E t \in Threads : CallPush(t)
    \/ \E t \in Threads : CallPop(t)
    \/ \E t \in Threads : CallLen(t)
    \/ \E t \in Threads : PushFetchAdd(t)
    \/ \E t \in Threads : PushFetchMin(t)
    \/ \E t \in Threads : PushWrite(t)
    \/ \E t \in Threads : PushCheckPoppers(t)
    \/ \E t \in Threads : PushReturnSome(t)
    \/ \E t \in Threads : SwapTryLock(t)
    \/ \E t \in Threads : SwapWritePoppers(t)
    \/ \E t \in Threads : SwapWritePushers(t)
    \/ \E t \in Threads : SwapDo(t)
    \/ \E t \in Threads : PopFetchSub(t)
    \/ \E t \in Threads : PopFetchMax(t)
    \/ \E t \in Threads : PopRead(t)
    \/ \E t \in Threads : PopCheckPushers(t)
    \/ \E t \in Threads : PopReturnNone(t)
    \/ \E t \in Threads : LenPoppers(t)

SpecSeq == InitSeq /\ [][NextSeq]_vars

\* The hazard-pointer stack used through the handle LockFreeStacc::new
\* returns.
InitHP == DUnused /\ RCUnused /\ EUnused /\ HPInit /\ AAUnused /\ QUnused

NextHP ==
    \/ \E h \in HPHandles : HPCallPush(h)
    \/ \E h \in HPHandles : HPPushCas(h)
    \/ \E h \in HPHandles : HPPushLen(h)
    \/ \E h \in HPHandles : HPCallPop(h)
    \/ \E h \in HPHandles : HPPopHazard(h)
    \/ \E h \in HPHandles : HPPopNone(h)
    \/ \E h \in HPHandles : HPPopRecheck(h)
    \/ \E h \in HPHandles : HPPopNext(h)
    \/ \E h \in HPHandles : HPPopCas(h)
    \/ \E h \in HPHandles : HPPopClear(h)
    \/ \E h \in HPHandles : HPPopLen(h)
    \/ \E h \in HPHandles : HPPopData(h)
    \/ \E h \in HPHandles : HPPopRetire(h)
    \/ \E h \in HPHandles : HPScanLoad(h)
    \/ \E h \in HPHandles : HPScanFilter(h)
    \/ \E h \in HPHandles : HPPopReturn(h)

SpecHP == InitHP /\ [][NextHP]_vars

\* A program of two threads. Thread 1 owns handle 1 and makes the calls
\* HPDriverCall(0), HPDriverCall(1), ...: a push, then R - 1 times a push and
\* a pop, then a pop, then a push and two pops over and over. Thread 2 owns
\* the clone, handle 2, and calls pop once.
HPDriverCall(n) ==
    IF n = 0 THEN "push"
    ELSE IF n <= 2 * (R - 1) THEN (IF n % 2 = 1 THEN "push" ELSE "pop")
    ELSE IF n = 2 * (R - 1) + 1 THEN "pop"
    ELSE IF (n - 2 * R) % 3 = 0 THEN "push" ELSE "pop"

\* The calls thread 1 makes.
HPDriverCalls == 5 * R

\* The calls thread 1 has made.
HPDriverDone == hp_obs.npush + hp_handles[1].ops

\* Thread 1 makes its next call. It is scheduled only while thread 2 is not
\* between its load of top and its store of the hazard slot.
HPDriverPush ==
    /\ HPDriverDone < HPDriverCalls
    /\ HPDriverCall(HPDriverDone) = "push"
    /\ \A h \in HPHandles \ {1} : hp_handles[h].pc # "pop_hazard"
    /\ HPEnterPush(1)

HPDriverPop ==
    /\ HPDriverDone < HPDriverCalls
    /\ HPDriverCall(HPDriverDone) = "pop"
    /\ \A h \in HPHandles \ {1} : hp_handles[h].pc # "pop_hazard"
    /\ HPEnterPop(1, hp_handles[1].ops + 1)

\* The exchange of thread 1's push in the schedules where it does not fail
\* spuriously.
HPDriverPushCas == HPPushCas(1) /\ hp_handles'[1].pc = "push_len"

\* Thread 2 calls pop after the first push of thread 1 has returned, stores
\* its hazard slot and is not scheduled again.
HPDriverOtherPop(h) ==
    /\ HPDriverDone = 1
    /\ hp_handles[1].pc = "idle"
    /\ HPCallPopCounted(h)

InitHPDriver == DUnused /\ RCUnused /\ EUnused /\ HPInitN(HPNumHandles) /\ AAUnused /\ QUnused

NextHPDriver ==
    \/ HPDriverPush
    \/ HPDriverPushCas
    \/ HPPushLen(1)
    \/ HPDriverPop
    \/ \E h \in HPHandles \ {1} : HPDriverOtherPop(h)
    \/ \E h \in HPHandles : HPPopHazard(h)
    \/ HPPopNone(1)
    \/ HPPopRecheck(1)
    \/ HPPopNext(1)
    \/ HPPopCas(1)
    \/ HPPopClear(1)
    \/ HPPopLen(1)
    \/ HPPopData(1)
    \/ HPPopRetire(1)
    \/ HPScanLoad(1)
    \/ HPScanFilter(1)
    \/ HPPopReturn(1)

SpecHPDriver == InitHPDriver /\ [][NextHPDriver]_vars

\* The reference-counted stack shared by RCNumHandles handles.
InitRC == DUnused /\ HPInit /\ EUnused /\ RCInit(RCNumHandles) /\ AAUnused /\ QUnused

NextRC ==
    \/ \E h \in RCHandles : RCCallPush(h)
    \/ \E h \in RCHandles : RCPushCas(h)
    \/ \E h \in RCHandles : RCPushRetry(h)
    \/ \E h \in RCHandles : RCPushLen(h)
    \/ \E h \in RCHandles : RCCallPop(h)
    \/ \E h \in RCHandles : RCPopReload(h)
    \/ \E h \in RCHandles : RCPopInc(h)
    \/ \E h \in RCHandles : RCPopNext(h)
    \/ \E h \in RCHandles : RCPopCas(h)
    \/ \E h \in RCHandles : RCPopDec(h)
    \/ \E h \in RCHandles : RCPopLen(h)
    \/ \E h \in RCHandles : RCPopOwn(h)
    \/ \E h \in RCHandles : RCPopItem(h)

SpecRC == InitRC /\ [][NextRC]_vars

\* The reference-counted stack whose handles are dropped between their
\* calls.
NextRCDrop ==
    \/ \E h \in RCHandles : RCCallPush(h) /\ rc_obs.npush < RCDropMaxPush
    \/ \E h \in RCHandles : RCPushCas(h)
    \/ \E h \in RCHandles : RCPushRetry(h)
    \/ \E h \in RCHandles : RCPushLen(h)
    \/ \E h \in RCHandles : RCCallPop(h)
    \/ \E h \in RCHandles : RCPopReload(h)
    \/ \E h \in RCHandles : RCPopInc(h)
    \/ \E h \in RCHandles : RCPopNext(h)
    \/ \E h \in RCHandles : RCPopCas(h)
    \/ \E h \in RCHandles : RCPopDec(h)
    \/ \E h \in RCHandles : RCPopLen(h)
    \/ \E h \in RCHandles : RCPopOwn(h)
    \/ \E h \in RCHandles : RCPopItem(h)
    \/ \E h \in RCHandles : RCDropLock(h)
    \/ \E h \in RCHandles : RCDropNode(h)
    \/ \E h \in RCHandles : RCDropUnlock(h)

SpecRCDrop == InitRC /\ [][NextRCDrop]_vars

\* The reference-counted stack with every handle on a thread of its own
\* that the scheduler runs again and again: a handle that can take a step
\* eventually takes one.
RCLiveStep(h) ==
    \/ RCCallPush(h)
    \/ RCPushCas(h)
    \/ RCPushRetry(h)
    \/ RCPushLen(h)
    \/ RCCallPop(h)
    \/ RCPopReload(h)
    \/ RCPopInc(h)
    \/ RCPopNext(h)
    \/ RCPopCas(h)
    \/ RCPopDec(h)
    \/ RCPopLen(h)
    \/ RCPopOwn(h)
    \/ RCPopItem(h)

RCFair == \A h \in 1..RCNumHandles : WF_vars(RCLiveStep(h))

SpecRCLive == InitRC /\ [][NextRC]_vars /\ RCFair

\* The epoch-based stack shared by ENumHandles handles.
InitEBR == DUnused /\ HPInit /\ RCUnused /\ EInit(ENumHandles) /\ AAUnused /\ QUnused

NextEBR ==
    \/ \E h \in EHandles : ECallPush(h)
    \/ \E h \in EHandles : EPushCas(h)
    \/ \E h \in EHandles : ECallPop(h)
    \/ \E h \in EHandles : EPopLoadEpoch(h)
    \/ \E h \in EHandles : EPopSwapEpoch(h)
    \/ \E h \in EHandles : EPopScan(h)
    \/ \E h \in EHandles : EPopLoadTop(h)
    \/ \E h \in EHandles : EPopNext(h)
    \/ \E h \in EHandles : EPopNone(h)
    \/ \E h \in EHandles : EPopCas(h)
    \/ \E h \in EHandles : EPopData(h)
    \/ \E h \in EHandles : EPopDefer(h)

SpecEBR == InitEBR /\ [][NextEBR]_vars

\* The epoch-based stack whose handles are dropped after their calls.
NextEBRDrop ==
    \/ \E h \in EHandles : ECallPush(h) /\ e_obs.npush < ELiveMaxPush
    \/ \E h \in EHandles : EPushCas(h)
    \/ \E h \in EHandles : ECallPop(h)
    \/ \E h \in EHandles : EEnterDrop(h)
    \/ \E h \in EHandles : EPopLoadEpoch(h)
    \/ \E h \in EHandles : EPopSwapEpoch(h)
    \/ \E h \in EHandles : EPopScan(h)
    \/ \E h \in EHandles : EPopLoadTop(h)
    \/ \E h \in EHandles : EPopNext(h)
    \/ \E h \in EHandles : EPopNone(h)
    \/ \E h \in EHandles : EPopCas(h)
    \/ \E h \in EHandles : EPopData(h)
    \/ \E h \in EHandles : EPopDefer(h)
    \/ \E h \in EHandles : EDropEnd(h)

SpecEBRDrop == InitEBR /\ [][NextEBRDrop]_vars

\* start_shared_section applied to every slot table: the handles call pop
\* on the empty stack.
InitEBRSection == DUnused /\ HPInit /\ RCUnused /\ EInitAny(ENumHandles) /\ AAUnused /\ QUnused

NextEBRSection ==
    \/ \E h \in EHandles : ECallPop(h)
    \/ \E h \in EHandles : EPopLoadEpoch(h)
    \/ \E h \in EHandles : EPopSwapEpoch(h)
    \/ \E h \in EHandles : EPopScan(h)
    \/ \E h \in EHandles : EPopLoadTop(h)
    \/ \E h \in EHandles : EPopNext(h)
    \/ \E h \in EHandles : EPopNone(h)

SpecEBRSection == InitEBRSection /\ [][NextEBRSection]_vars

\* The epoch-based stack with handles that keep calling pop. Every handle
\* is a thread the scheduler runs again and again: whenever it can take a
\* step it eventually takes one, and an idle handle can always call pop.
ELiveStep(h) ==
    \/ ECallPush(h) /\ e_obs.npush < ELiveMaxPush
    \/ EPushCas(h)
    \/ EPopAgain(h)
    \/ EPopLoadEpoch(h)
    \/ EPopSwapEpoch(h)
    \/ EPopScan(h)
    \/ EPopLoadTop(h)
    \/ EPopNext(h)
    \/ EPopNone(h)
    \/ EPopCas(h)
    \/ EPopData(h)
    \/ EPopDefer(h)

NextEBRLive ==
    \/ \E h \in EHandles : ECallPush(h) /\ e_obs.npush < ELiveMaxPush
    \/ \E h \in EHandles : EPushCas(h)
    \/ \E h \in EHandles : EPopAgain(h)
    \/ \E h \in EHandles : EPopLoadEpoch(h)
    \/ \E h \in EHandles : EPopSwapEpoch(h)
    \/ \E h \in EHandles : EPopScan(h)
    \/ \E h \in EHandles : EPopLoadTop(h)
    \/ \E h \in EHandles : EPopNext(h)
    \/ \E h \in EHandles : EPopNone(h)
    \/ \E h \in EHandles : EPopCas(h)
    \/ \E h \in EHandles : EPopData(h)
    \/ \E h \in EHandles : EPopDefer(h)

EBRFair == \A h \in 1..ENumHandles : WF_vars(ELiveStep(h))

SpecEBRLive == InitEBR /\ [][NextEBRLive]_vars /\ EBRFair

\* Handles of the hazard-pointer and of the epoch-based stack are cloned,
\* no other call is made.
InitClone == DUnused /\ HPInit /\ RCUnused /\ EUnused /\ AAUnused /\ QUnused

NextClone ==
    \/ \E h \in HPHandles : HPClone(h)
    \/ \E h \in EHandles : EClone(h)

SpecClone == InitClone /\ [][NextClone]_vars

\* One AtomicArc shared by AANumThreads threads.
InitAA == DUnused /\ HPInit /\ RCUnused /\ EUnused /\ QUnused /\ AAInit(AANumThreads)

NextAA ==
    \/ \E t \in AAThreads : AANew(t)
    \/ \E t \in AAThreads : AALoadPtr(t)
    \/ \E t \in AAThreads : AALoadClone(t)
    \/ \E t \in AAThreads : \E other \in AAArgs(t) : AASwap(t, other)
    \/ \E t \in AAThreads : \E current \in 0..Len(aa_heap) :
          \E new \in AAArgs(t) : AACompareMaybeExchange(t, current, new)
    \/ \E t \in AAThreads : \E i \in DOMAIN aa_threads[t].arcs : AADropArc(t, i)

SpecAA == InitAA /\ [][NextAA]_vars

\* One queue, its producer and its consumer, then the drop of both.
InitQueue ==
    /\ DUnused /\ HPInit /\ RCUnused /\ EUnused /\ AAUnused
    /\ \E k \in QStarts : QInit(k)

NextQueue ==
    \/ QPush
    \/ QPop
    \/ QDropBegin
    \/ QDropSlot
    \/ QDropEnd

SpecQueue == InitQueue /\ [][NextQueue]_vars

\* ======================================================================
\* Properties of the double-buffer stack
\* ======================================================================
AllIdle == \A t \in Threads : pc[t] = "idle"

AcceptedPush(e) == e.op = "push" /\ e.val = NoVal
RejectedPush(e) == e.op = "push" /\ e.val # NoVal
GoodPop(e) == e.op = "pop" /\ e.val # NoVal
OnlyPushes == \A i \in 1..Len(hist) : hist[i].op = "push"

\* Elements held right before call i of a single-threaded run, counted from
\* the results of the calls before it.
HeldBefore(i) ==
    Cardinality({j \in 1..(i - 1) : AcceptedPush(hist[j])})
    - Cardinality({j \in 1..(i - 1) : GoodPop(hist[j])})

RECURSIVE BagSize(_)
BagSize(bag) ==
    IF DOMAIN bag = {} THEN 0
    ELSE LET v == CHOOSE w \in DOMAIN bag : TRUE
         IN bag[v] + BagSize([w \in DOMAIN bag \ {v} |-> bag[w]])

\* Successful pops so far.
TotalPopped == BagSize(popCount)

Popped(v) == IF v \in DOMAIN popCount THEN popCount[v] ELSE 0

Occurrences(seq, v) == Cardinality({i \in DOMAIN seq : seq[i] = v})

StoredCount(v) ==
    Occurrences(Stored(pushers), v) + Occurrences(Stored(poppers), v)

\* The run so far is n accepted pushes followed by at most n + 1 pops.
PushesThenPops(n) ==
    /\ n <= Len(hist)
    /\ Len(hist) <= 2 * n + 1
    /\ \A i \in 1..n : AcceptedPush(hist[i])
    /\ \A j \in (n + 1)..Len(hist) : hist[j].op = "pop"

\* C1: on one thread, after n accepted pushes v0..vn-1 the next n pops return
\* vn-1..v0 in exact reverse order and the pop after them returns None.
C1_ReverseOrder ==
    \A n \in 0..Len(hist) :
        PushesThenPops(n) =>
            \A k \in 1..(Len(hist) - n) :
                hist[n + k].val = IF k <= n THEN hist[n - k + 1].arg ELSE NoVal

\* C2 as stated: after C accepted pushes and no pops, the next push returns
\* its argument back.
C2_FullAfterCap ==
    (/\ OnlyPushes
     /\ Len(hist) > cap
     /\ \A i \in 1..cap : AcceptedPush(hist[i]))
    => hist[cap + 1].val = hist[cap + 1].arg

\* C2 amended: after 2*C accepted pushes and no pops, the next push returns
\* its argument back unchanged and leaves the stored elements (and both
\* counters) as they were after the 2*C-th push.
C2_FullAfterTwiceCap ==
    (/\ OnlyPushes
     /\ Len(hist) >= 2 * cap
     /\ \A i \in 1..(2 * cap) : AcceptedPush(hist[i]))
    => /\ Len(hist) > 2 * cap
          => hist[2 * cap + 1].val = hist[2 * cap + 1].arg
       /\ (AllIdle /\ Len(hist) <= 2 * cap + 1)
          => /\ poppers.len = cap
             /\ pushers.len = cap
             /\ Stored(poppers) = [i \in 1..cap |-> i]
             /\ Stored(pushers) = [i \in 1..cap |-> cap + i]

C2_Witness ==
    /\ cap >= 1
    /\ OnlyPushes
    /\ AllIdle
    /\ Len(hist) = 2 * cap + 1
    /\ RejectedPush(hist[2 * cap + 1])

\* C3: used by one thread at a time, a push is rejected exactly when the
\* structure holds 2*C elements at the call; each sub-buffer has C slots and
\* between calls the two counters add up to the elements held.
C3_RejectIffFull ==
    /\ \A i \in 1..Len(hist) :
          hist[i].op = "push" =>
              (RejectedPush(hist[i]) <=> HeldBefore(i) = 2 * cap)
    /\ MaxLen(pushers) = cap /\ MaxLen(poppers) = cap
    /\ AllIdle => /\ pushers.len \in 0..cap
                  /\ poppers.len \in 0..cap
                  /\ pushers.len + poppers.len = HeldBefore(Len(hist) + 1)

C3_Witness ==
    /\ cap >= 1
    /\ \E i \in 1..Len(hist) :
          /\ RejectedPush(hist[i])
          /\ \E j \in 1..(i - 1) : GoodPop(hist[j])

\* C4: a push returns Some(x) only if both sub-buffers were at capacity at
\* some instant between its call and its return.
C4_RejectOnlyWhenFull ==
    \A t \in Threads : pc[t] = "push_ret_some" => sawFull[t]

\* C5: whenever no call is in progress, every accepted payload is either
\* stored once or was returned by exactly one pop, and nothing else is stored
\* or was returned; a pop that no other call overlaps returns None only when
\* every accepted payload has been popped.
C5_NoLossNoDup ==
    /\ AllIdle =>
          \A v \in (0..npush) \cup DOMAIN popCount :
              Popped(v) + StoredCount(v) = IF v \in accepted THEN 1 ELSE 0
    /\ \A t \in Threads :
          (pc[t] = "pop_ret_none" /\ alone[t])
              => TotalPopped = Cardinality(accepted)

C5_Witness ==
    /\ nthr > 1
    /\ \E t \in Threads : pc[t] = "pop_ret_none" /\ alone[t]
    /\ Cardinality(accepted) >= 1
    /\ TotalPopped >= 1

\* C6: once no call is in progress, len() is the number of pushes that
\* returned None minus the number of pops that returned Some.
C6_LenIsNet ==
    AllIdle =>
        LenSum(pushers.len, poppers.len) = Cardinality(accepted) - TotalPopped

C6_Witness ==
    /\ nthr > 1
    /\ AllIdle
    /\ Cardinality(accepted) >= 3
    /\ TotalPopped >= 1
    /\ pushers.len >= 1
    /\ poppers.len >= 1


\* Thread t leaves the check of the pop-buffer that follows a push on the
\* full push-buffer, for swap_stacks or for `return Some(x)`.
PushSwaps(t) == pc[t] = "push_chk" /\ pc'[t] = "swap_try"
PushRejects(t) == pc[t] = "push_chk" /\ pc'[t] = "push_ret_some"

\* C22 as stated: a push that finds the push-buffer full swaps the buffers
\* only if the pop-buffer is drained, and is rejected without a swap if the
\* pop-buffer holds elements.
C22_SwapOnlyWhenDrained ==
    [][\A t \in Threads : PushSwaps(t) => ClampNeg(poppers.len) = 0]_vars

\* C22, amended: a push that finds the push-buffer full swaps the buffers
\* exactly when the pop-buffer is below its capacity, and is rejected
\* without a swap exactly when the pop-buffer is at capacity.
C22_SwapUnlessPopFull ==
    [][\A t \in Threads :
         /\ PushSwaps(t) => ClampNeg(poppers.len) < MaxLen(poppers)
         /\ PushRejects(t) => ClampNeg(poppers.len) = MaxLen(poppers)]_vars

\* A push is about to swap the buffers while the pop-buffer holds elements.
C22_Witness ==
    \E t \in Threads :
        /\ pc[t] = "swap_try"
        /\ loc[t].caller = "push"
        /\ poppers.len > 0
        /\ poppers.len < MaxLen(poppers)

\* C23: with fair scheduling and fair locks, a thread inside a push, pop or
\* len call is eventually back outside of it: the call returns, the
\* swap-and-retry path does not repeat forever.
C23_CallsReturn ==
    \A t \in 1..NumThreads : (pc[t] # "idle") ~> (pc[t] = "idle")

\* The threads holding what thread t is about to acquire. A read request
\* waits for the writer and, as parking_lot queues readers behind a parked
\* writer, for a thread waiting to write; a write request waits for the
\* writer and for every reader; swap_lock.lock() waits for its holder.
Writer(lock) == {u \in Threads : lock.writer = u}
WaitsFor(t) ==
    CASE pc[t] \in {"push_fadd", "pop_chk"} ->
             Writer(pushers_lock) \cup {u \in Threads : pc[u] = "swap_wpush"}
      [] pc[t] \in {"pop_fsub", "push_chk", "len_poppers"} ->
             Writer(poppers_lock) \cup {u \in Threads : pc[u] = "swap_wpop"}
      [] pc[t] = "swap_wait" -> {u \in Threads : swap_lock = u}
      [] pc[t] = "swap_wpop" -> Writer(poppers_lock) \cup poppers_lock.readers
      [] pc[t] = "swap_wpush" -> Writer(pushers_lock) \cup pushers_lock.readers
      [] OTHER -> {}

\* C24: no set of threads waits in a circle: in every non-empty set of
\* threads some thread waits for no member of the set, so that thread runs or
\* waits for a thread outside of the set.
C24_NoDeadlock ==
    \A W \in SUBSET Threads :
        W # {} => \E t \in W : WaitsFor(t) \cap W = {}

\* The swapper holds swap_lock and the pop-buffer's write lock and waits for
\* the push-buffer's, which a push in progress holds for reading, while
\* nobody waits for nobody in a circle.
C24_Witness ==
    \E t \in Threads :
        /\ pc[t] = "swap_wpush"
        /\ swap_lock = t
        /\ poppers_lock.writer = t
        /\ pushers_lock.readers # {}

\* C25: between two swaps no slot is written by two pushes and none is read
\* by two pops, and the slot a pop is about to read holds the value of a push
\* that has returned.
C25_SlotsExclusive ==
    /\ \A i \in DOMAIN slotUse.written : slotUse.written[i] <= 1
    /\ \A i \in DOMAIN slotUse.read : slotUse.read[i] <= 1
    /\ \A t \in Threads :
          pc[t] = "pop_read" =>
              /\ loc[t].oldlen \in DOMAIN poppers.slice
              /\ poppers.slice[PopSlot(loc[t].oldlen)] \in accepted

\* Two pushes are between fetch_add and ptr::write at the same time, after a
\* swap and a pop that has read a slot of the other buffer.
C25_Witness ==
    \E t, u \in Threads :
        /\ t # u
        /\ pc[t] = "push_write"
        /\ pc[u] = "push_write"
        /\ DOMAIN slotUse.read # {}

\* A thread is inside AtomicPush::push on the push-buffer / inside
\* AtomicPop::pop on the pop-buffer, past the fetch_add / fetch_sub.
InAtomicPush(t) == pc[t] \in {"push_fmin", "push_write"}
InAtomicPop(t) == pc[t] \in {"pop_fmax", "pop_read"}
InRange(b) == b.len >= 0 /\ b.len <= MaxLen(b)

\* C26: a buffer's counter is within [0, C] whenever no AtomicPush::push /
\* AtomicPop::pop call on it is past its fetch_add / fetch_sub, and both
\* counters are within [0, C] when swap_stacks exchanges the buffers.
C26_CountersInRangeAtRest ==
    /\ (\A t \in Threads : ~InAtomicPush(t)) => InRange(pushers)
    /\ (\A t \in Threads : ~InAtomicPop(t)) => InRange(poppers)
    /\ (\E t \in Threads : pc[t] = "swap_do") =>
           InRange(pushers) /\ InRange(poppers)

\* swap_stacks is about to exchange the buffers for a push that has driven
\* the push-buffer's counter above C, while a pop that has driven the
\* pop-buffer's counter below 0 waits.
C26_Witness ==
    \E t, u \in Threads :
        /\ pc[t] = "swap_do"
        /\ loc[t].caller = "push"
        /\ pc[u] \in {"pop_chk", "swap_try", "swap_wait"}
        /\ MaxLen(pushers) > 0

\* ======================================================================
\* Properties of the hazard-pointer stack
\* ======================================================================
\* C7: with a single handle, a pop returns the most recently pushed payload
\* that has not been popped yet, and None exactly when there is none, also
\* once pushes take their nodes from the cache that scan has filled.
C7_PopReturnsNewest ==
    \A h \in HPHandles :
        /\ hp_handles[h].pc = "pop_ret"
              => /\ hp_handles[h].loc.want # NoVal
                 /\ hp_handles[h].loc.data = hp_handles[h].loc.want
        /\ hp_handles[h].pc = "pop_none" => hp_obs.abs = << >>

\* C13: when a pop has returned, the retired list of the handle that called it
\* holds fewer than R pointers.
C13_RetiredBelowR ==
    \A h \in HPHandles :
        hp_handles[h].pc \in {"idle", "pop_ret"}
            => Len(hp_handles[h].retired_pointers) < R

\* The addresses in the reuse caches of the handles.
HPCached ==
    UNION {{hp_handles[h].cached_allocations[i] :
               i \in DOMAIN hp_handles[h].cached_allocations} : h \in HPHandles}

\* C15: the node whose successor or payload a pop is reading is in no
\* handle's cached_allocations.
C15_ReadNotCached ==
    \A h \in HPHandles :
        hp_handles[h].pc \in {"pop_next", "pop_data"}
            => hp_handles[h].loc.top \notin HPCached

\* ======================================================================
\* Properties of the reference-counted stack
\* ======================================================================
\* The addresses linked from p, following at most n next pointers.
RECURSIVE RCChain(_, _)
RCChain(p, n) ==
    IF p = Null \/ n = 0 THEN {} ELSE {p} \cup RCChain(rc_heap[p].next, n - 1)

RCLinked == RCChain(rc_shared.head, Len(rc_heap))

\* The boxes some handle holds in its local garbage.
RCOwned == UNION {{rc_handles[h].local_garbage[i] :
                      i \in DOMAIN rc_handles[h].local_garbage} : h \in RCHandles}

\* C8: no pushed payload is returned by two pops, and a box a pop has taken
\* (it lies in its handle's local garbage until that handle pushes it again)
\* is not linked from head.
C8_PoppedOnceAndUnlinked ==
    /\ \A v \in DOMAIN rc_obs.returned : rc_obs.returned[v] <= 1
    /\ RCLinked \cap RCOwned = {}

\* The number of times address a has been deallocated.
RCFreed(a) == IF a \in DOMAIN rc_obs.freed THEN rc_obs.freed[a] ELSE 0

\* C16: a pop that has read an address from head and is about to increment
\* the counter of that node, or to read its successor, holds a node that
\* has not been deallocated.
C16_NoUseAfterFree ==
    \A h \in RCHandles :
        rc_handles[h].pc \in {"pop_inc", "pop_next"}
            => RCFreed(rc_handles[h].loc.head) = 0

\* The compare_exchange of push by handle h succeeds in this step.
RCPushSucceeds(h) ==
    rc_handles[h].pc = "push_cas" /\ rc_handles'[h].pc = "push_len"

\* Handle h goes from a failed compare_exchange of push to the next one.
RCPushRetries(h) ==
    rc_handles[h].pc = "push_retry" /\ rc_handles'[h].pc = "push_cas"

\* C17: the successor of the node a successful compare_exchange of push
\* installs is the head that exchange replaced, and after a failed one the
\* next exchange expects the head the failed one found.
C17_PushLinksReplacedHead ==
    [][\A h \in RCHandles :
         /\ RCPushSucceeds(h)
               => rc_heap[rc_handles[h].loc.node].next = rc_shared.head
         /\ RCPushRetries(h)
               => rc_handles'[h].loc.head = rc_handles[h].loc.newhead]_vars

\* C18: a push whose compare_exchange has failed goes on to return; the
\* handles make finitely many calls, so the other threads stop changing
\* head.
C18_PushReturns ==
    \A h \in 1..RCNumHandles :
        (rc_handles[h].pc = "push_retry") ~> (rc_handles[h].pc = "push_len")

\* C21: the assert_eq of nonnull_to_box never fails while StaccInner is
\* dropped: no handle ends its drop in the panic of the teardown.
C21_TeardownAssertHolds ==
    \A h \in RCHandles : rc_handles[h].pc # "panicked"

\* C27: the usize counter len of the hazard-pointer and of the
\* reference-counted stack is never decremented at 0, so it never holds a
\* wrapped value (a value above the number of pushes whose exchange on the
\* top has succeeded).
C27_LenNeverWraps ==
    /\ rc_shared.len >= 0
    /\ hp_shared.len >= 0

\* ======================================================================
\* Properties of the epoch-based stack
\* ======================================================================
\* The payloads of the boxes linked from p, following at most n pointers.
RECURSIVE EChain(_, _)
EChain(p, n) ==
    IF p = Null \/ n = 0 THEN << >>
    ELSE <<e_heap[p].data>> \o EChain(e_heap[p].next, n - 1)

\* C9: the exchanges on top order the calls like a sequential stack: the
\* boxes linked from top carry the payloads pushed and not yet popped,
\* newest first; a pop returns the payload that was on top when its
\* exchange unlinked the box; no payload is returned by two pops; a pop
\* returns None only after it has read a null top.
C9_Linearizable ==
    /\ EChain(e_shared.top, Len(e_heap) + 1) = e_obs.abs
    /\ \A h \in EHandles :
          /\ e_handles[h].pc = "pop_defer"
                => /\ e_handles[h].loc.want # NoVal
                   /\ e_handles[h].loc.data = e_handles[h].loc.want
          /\ e_handles[h].pc = "pop_none" => e_handles[h].loc.readNull
    /\ \A v \in DOMAIN e_obs.returned : e_obs.returned[v] <= 1

EPopReturns(h) ==
    e_handles[h].pc \in {"pop_none", "pop_defer"} /\ e_handles'[h].pc = "idle"

\* C20: when pop returns, with a value or with None, the is_active flag of
\* the calling handle's slot is false.
C20_InactiveAfterPop ==
    [][\A h \in EHandles :
         EPopReturns(h)
            => ~e_shared'.threads[e_handles[h].thread_id].is_active]_vars

\* ======================================================================
\* Properties of handle creation
\* ======================================================================
\* C10: every handle of the hazard-pointer stack and of the epoch-based
\* stack holds a slot index below MAX_THREADS; a clone that finds all slots
\* handed out does not return a handle.
C10_SlotInRange ==
    /\ \A h \in HPHandles : hp_handles[h].thread_number < MAX_THREADS
    /\ \A h \in EHandles : e_handles[h].thread_id < MAX_THREADS

\* C11: the handles of one hazard-pointer stack hold pairwise different
\* slot indices, and so do the handles of one epoch-based stack.
C11_DistinctSlots ==
    /\ \A g, h \in HPHandles :
          g # h => hp_handles[g].thread_number # hp_handles[h].thread_number
    /\ \A g, h \in EHandles :
          g # h => e_handles[g].thread_id # e_handles[h].thread_id

\* The boxes in the limbo lists and in the garbage of the handles.
ELimbo ==
    UNION {{e_handles[h].limbo[b][i] : i \in DOMAIN e_handles[h].limbo[b]} :
              h \in EHandles, b \in 1..3}

EGarbage ==
    UNION {{e_handles[h].garbage[i] : i \in DOMAIN e_handles[h].garbage} :
              h \in EHandles}

\* C12: with handles that keep calling pop, once a box lies in a limbo list
\* the global epoch advances and the box reaches its handle's garbage (the
\* reuse cache).
C12_LimboReclaimed ==
    /\ (ELimbo # {}) ~> (e_shared.global_epoch > 0)
    /\ \A p \in 1..ELiveMaxPush : (p \in ELimbo) ~> (p \in EGarbage)

\* The number of times address a has been freed.
EFreed(a) == IF a \in DOMAIN e_obs.freed THEN e_obs.freed[a] ELSE 0

\* C14: a dropped handle has freed every node it held in its limbo lists,
\* and once all handles are dropped (the shared structure is torn down with
\* the last of them) every allocated node has been freed exactly once.
C14_FreedExactlyOnce ==
    /\ \A h \in EHandles :
          e_handles[h].pc = "dropped"
             => \A b \in 1..3 : \A i \in DOMAIN e_handles[h].limbo[b] :
                   EFreed(e_handles[h].limbo[b][i]) >= 1
    /\ (\A h \in EHandles : e_handles[h].pc = "dropped")
          => \A a \in DOMAIN e_heap : EFreed(a) = 1

\* ======================================================================
\* Properties of AtomicArc
\* ======================================================================
\* The Arc handles to allocation a that threads own.
AAHandleCount(a) ==
    Cardinality({p \in UNION {{t} \X DOMAIN aa_threads[t].arcs : t \in AAThreads} :
                    aa_threads[p[1]].arcs[p[2]] = a})

\* C28: the allocation load is about to clone from has not been freed (its
\* strong count has not reached 0), and the strong count of every
\* allocation is the number of Arc handles to it plus one if the slot holds
\* it.
C28_LoadSafeAndCountsExact ==
    /\ \A t \in AAThreads :
          aa_threads[t].pc = "load_clone" => ~aa_heap[aa_threads[t].ptr].freed
    /\ \A a \in DOMAIN aa_heap :
          aa_heap[a].strong = AAHandleCount(a) + (IF aa_ptr = a THEN 1 ELSE 0)

\* ======================================================================
\* Properties of the SPSC ring buffer
\* ======================================================================
\* The slots from head up to but excluding tail, in ring order.
RECURSIVE QSlots(_, _)
QSlots(head, tail) ==
    IF head = tail THEN {} ELSE {head} \cup QSlots(Masked(head + 1), tail)

\* C29: the drop of QueueInner reads only slots from head up to but
\* excluding tail, no slot twice, and when it ends it has read all of them.
C29_DropsExactlyHeld ==
    LET held == QSlots(q_inner.head, q_inner.tail)
        d == q_obs.dropped
    IN /\ \A i \in DOMAIN d : d[i] \in held
       /\ \A i, j \in DOMAIN d : i # j => d[i] # d[j]
       /\ q_drop.pc = "dropped" => {d[i] : i \in DOMAIN d} = held

====
